---- MODULE Spec2Model ----
(***************************************************************************)
(* Model of the batch pose-transfer pipeline of app.py (approve_edit):     *)
(* shared asset upload, per-item pose upload, per-item job-graph           *)
(* instantiation and submission, bounded polling, retrieval and the final  *)
(* BatchJob write.  Every remote call is a step whose outcome is chosen by *)
(* the environment.                                                        *)
(***************************************************************************)
EXTENDS Integers, Sequences, FiniteSets, TLC

\* ---------------------------------------------------------------- bounds
\* Largest carousel considered (the edited image plus its siblings).
MaxImages == 4

\* ------------------------------------------------------ program constants
\* app.py:347  max_attempts = 60
max_attempts == 60

\* Absent value (Python None / missing key).
None == <<>>

\* Absent text (a NULL text column, a missing 'error' key).
Null == "null"

\* Values random.randint(1000000000000, 9999999999999) may return: the two
\* ends of the range stand for all of it (app.py:323).
SeedValues == {"1000000000000", "9999999999999"}

\* Nodes of the workflow template that approve_edit binds (app.py:320-324).
BoundNodes == {"67", "78", "179", "74", "94"}

\* A template node that approve_edit never touches.
OtherNode == "3"

\* ------------------------------------------------------------- variables
VARIABLES
    pc,                 \* position of the approve_edit request
    carousel_images,    \* rows of the carousel, in image_order
    test,               \* the edit_tests row being approved
    other_images,       \* other_images.data, read at line 232
    comfyui_batches,    \* rows of comfyui_batches, indexed by batch id
    batch_id,           \* id of the row inserted at line 249 (0: none yet)
    remote_input,       \* Render Host input area: file name -> content
    heap,               \* Python objects holding job graphs: ref -> graph
    workflow_template,  \* reference of the loaded template (0: not loaded)
    workflow,           \* reference of the graph of the current iteration
    instantiated,       \* references of the graphs built so far, by position
    posted,             \* graphs received by POST /prompt, by position
    prompt_ids,         \* job identifiers recorded at line 333
    pose_index,         \* index of the submit loop (0-based)
    idx,                \* index of the upload loop, then of the poll loop
    attempt,            \* attempt counter of the poll loop
    output_filename,    \* filename extracted from the history response
    queries,            \* history queries made for the current prompt_ids entry
    last_poll,          \* job and outcome of the latest history query
    saw_error,          \* an earlier query of the current job raised
    poll_results,       \* what became of each polled prompt_ids entry
    submit_log,         \* outcome of each POST /prompt made, in order
    failed_step,        \* the step whose remote call failed ("none": none)
    storage,            \* paths uploaded to the carousel-images bucket
    completed_images,   \* local list completed_images
    response,           \* JSON response of the request (None: not returned)
    edit_tests,         \* rows of edit_tests, indexed by test id
    requests,           \* approve_edit requests seen as their database steps
    submitting,         \* test ids whose submit_edit request awaits the Edit API
    clear,              \* the clear_processing_batches script
    mutations,          \* kinds of change others have made to carousel_images
    api_responses,      \* pairs of test id and the Edit API answer received for it
    pose_transfer,      \* the api_pose_transfer request
    instagram_carousels,\* rows of instagram_carousels, indexed by row id
    imported_images,    \* carousel_images rows written by the import script
    import_job          \* the import_instagram_data process

vars == <<pc, carousel_images, test, other_images, comfyui_batches, batch_id,
          remote_input, heap, workflow_template, workflow, instantiated,
          posted, prompt_ids, pose_index, idx, attempt, output_filename,
          queries, last_poll, saw_error, poll_results, submit_log,
          failed_step, storage, completed_images, response,
          edit_tests, requests, submitting, clear, mutations,
          api_responses, pose_transfer, instagram_carousels, imported_images,
          import_job>>

\* The variables of the several-requests view of the system.
sys_vars == <<edit_tests, requests, submitting, clear, mutations, api_responses>>

\* The variables of the pose transfer endpoint and of the import script.
other_vars == <<pose_transfer, instagram_carousels, imported_images, import_job>>

\* The variables that only the single-request view uses.
detail_vars == <<pc, test, other_images, batch_id, remote_input, heap,
                 workflow_template, workflow, instantiated, posted, prompt_ids,
                 pose_index, idx, attempt, output_filename, queries, last_poll,
                 saw_error, poll_results, submit_log, failed_step, storage,
                 completed_images, response>>

\* ---------------------------------------------------------------- helpers
\* A row of carousel_images: odd ids have a local copy, even ids do not.
Image(i) ==
    [id |-> i,
     image_order |-> i,
     image_url |-> <<"instagram", i>>,
     local_path |-> IF i % 2 = 1 THEN <<"local", i>> ELSE None]

\* img.get('local_path') or img['image_url']
AssetUrl(img) == IF img.local_path # None THEN img.local_path ELSE img.image_url

\* The sibling query: rows of the carousel other than the edited image,
\* in image_order.
SiblingsOfAll(rows, image_id) == rows
SiblingsOf(rows, image_id) == SelectSeq(rows, LAMBDA r : r.id # image_id)

\* images_to_process as built at line 245.
ImagesToProcess(rows) ==
    [k \in 1..Len(rows) |->
        [id |-> rows[k].id, url |-> AssetUrl(rows[k]),
         order |-> rows[k].image_order]]

\* f"pose{idx + 1}.jpg" for the 0-based loop index of the upload loop.
PoseFilename(i) == <<"pose", i + 1, ".jpg">>

\* Path below ComfyUI/input of a file copied into the pose folder (line 298).
RemotePosePath(pose_filename) == <<"pose_folder">> \o pose_filename

\* f"{pose_folder}/pose{pose_index + 1}.jpg" bound to node 179.
PoseSlotOffByOne(i) == <<"pose_folder", "pose", i, ".jpg">>
PoseSlotValue(i) == <<"pose_folder", "pose", i + 1, ".jpg">>

\* f"{batch_id}_pose{pose_index + 1}" bound to node 94.
FilenamePrefix(b, i) == <<b, "_pose", i + 1>>

\* f"{batch_id}_pose{idx + 1}_00001_.png" built in the poll loop.
ActualFilename(b, i) == <<b, "_pose", i + 1, "_00001_.png">>

\* f"pose_transfers/{batch_id}_pose{idx + 1}.png"
StoragePathZeroBased(b, i) == <<"pose_transfers", b, "_pose", i, ".png">>
StoragePath(b, i) == <<"pose_transfers", b, "_pose", i + 1, ".png">>

\* supabase.storage.get_public_url(storage_path)
PublicUrl(path) == <<"public", "carousel-images">> \o path

\* The file the Render Host writes for a graph whose node 94 holds prefix.
SavedFileOf(prefix) == prefix \o <<"_00001_.png">>

\* Job identifier the Render Host returns for the job posted for a position,
\* and the position a job identifier was returned for.
JobId(position) == <<"prompt", position>>
PositionOfJob(job) == job[2]

\* Line 357: every pass of the while loop counts, whatever its outcome.
NextAttemptUncountedError(n, outcome) == IF outcome = "error" THEN n ELSE n + 1
NextAttempt(n, outcome) == n + 1

\* Lines 370-377 and 382-384: the loop is left by break when the completed
\* flag is seen; an exception or a pending answer goes back to the loop test.
LeavesLoopOnlyAtCeiling(outcome, n) == ~(n < max_attempts)
LeavesLoopOnError(outcome, n) ==
    outcome \in {"completed", "completed_no_images", "error"} \/ ~(n < max_attempts)
LeavesLoop(outcome, n) ==
    outcome \in {"completed", "completed_no_images"} \/ ~(n < max_attempts)

\* How the while loop ended, from the outcome of its last query: by break on
\* a completed flag (with or without an image filename) or by exhaustion.
PollVerdict(outcome) ==
    IF outcome \in {"completed", "completed_no_images"} THEN outcome ELSE "timed_out"

\* Line 386: "if not output_filename: continue".
RetrievesAlways(filename) == TRUE
Retrieves(filename) == filename # None

\* The template as stored in the workflow file, without the nodes of missing.
TemplateFile(missing) ==
    [n \in (BoundNodes \cup {OtherNode}) \ missing |-> <<"template", n>>]

\* json.loads(json.dumps(obj)): a new object with the same content.
AliasCopy(h, src, fresh) == [heap |-> h, ref |-> src]
DeepCopy(h, src, fresh) ==
    [heap |-> [r \in DOMAIN h \cup {fresh} |-> IF r = fresh THEN h[src] ELSE h[r]],
     ref |-> fresh]

\* workflow[node]["inputs"][...] = value on the object at ref.
SetSlot(h, ref, node, value) == [h EXCEPT ![ref][node] = value]

\* The five assignments of lines 320-324, in order.
Bindings(b, i, seed) ==
    << <<"67", <<"qwen_image_edit_2509_fp8_e4m3fn.safetensors">> >>,
       <<"78", <<"model.jpg">> >>,
       <<"179", PoseSlotValue(i)>>,
       <<"74", <<"seed", seed, "int">> >>,
       <<"94", FilenamePrefix(b, i)>> >>

\* Executes the assignments from the n-th on; an assignment to a node that
\* the graph does not have raises KeyError and the later ones are not run.
RECURSIVE BindFromSkipsMissing(_, _, _, _)
BindFromSkipsMissing(h, ref, bs, n) ==
    IF n > Len(bs) THEN [heap |-> h, raised |-> FALSE]
    ELSE IF bs[n][1] \notin DOMAIN h[ref] THEN BindFromSkipsMissing(h, ref, bs, n + 1)
    ELSE BindFromSkipsMissing(SetSlot(h, ref, bs[n][1], bs[n][2]), ref, bs, n + 1)

RECURSIVE BindFrom(_, _, _, _)
BindFrom(h, ref, bs, n) ==
    IF n > Len(bs) THEN [heap |-> h, raised |-> FALSE]
    ELSE IF bs[n][1] \notin DOMAIN h[ref] THEN [heap |-> h, raised |-> TRUE]
    ELSE BindFrom(SetSlot(h, ref, bs[n][1], bs[n][2]), ref, bs, n + 1)

BindSlots(h, ref, b, i, seed) == BindFrom(h, ref, Bindings(b, i, seed), 1)

\* The write of the except handler (lines 459-463).
FailedUpdateNoTimestamp(rows, b, e) ==
    [rows EXCEPT ![b].status = "failed", ![b].error_message = e]
FailedUpdateNoStatus(rows, b, e) ==
    [rows EXCEPT ![b].error_message = e,
                 ![b].completed_at = TRUE]
FailedUpdate(rows, b, e) ==
    [rows EXCEPT ![b].status = "failed",
                 ![b].error_message = e,
                 ![b].completed_at = TRUE]

\* The response of the except handler (lines 465-468).
ErrorResponse(e) == [success |-> FALSE, error |-> e, code |-> 500]

\* The pose transfer endpoint and the import script are not running.
OtherIdle ==
    /\ pose_transfer = [pc |-> "off"]
    /\ instagram_carousels = <<>>
    /\ imported_images = <<>>
    /\ import_job = [pc |-> "off"]

\* ------------------------------------------------------------------- Init
Init ==
    /\ pc = "approve"
    /\ \E m \in 1..MaxImages :
         /\ carousel_images = [i \in 1..m |-> Image(i)]
         \* the edited image is the second of the carousel when there is one
         /\ \E e \in {IF m >= 2 THEN 2 ELSE 1} :
              test = [image_id |-> e, status |-> "completed", notes |-> None,
                      approved_at |-> FALSE]
    /\ other_images = <<>>
    /\ comfyui_batches = <<>>
    /\ batch_id = 0
    /\ remote_input = <<>>
    /\ heap = <<>>
    /\ workflow_template = 0
    /\ workflow = 0
    /\ instantiated = <<>>
    /\ posted = <<>>
    /\ prompt_ids = <<>>
    /\ pose_index = 0
    /\ idx = 0
    /\ attempt = 0
    /\ output_filename = None
    /\ queries = 0
    /\ last_poll = None
    /\ saw_error = FALSE
    /\ poll_results = <<>>
    /\ submit_log = <<>>
    /\ failed_step = "none"
    /\ storage = {}
    /\ completed_images = <<>>
    /\ response = None
    /\ edit_tests = <<>>
    /\ requests = <<>>
    /\ submitting = {}
    /\ clear = [pc |-> "idle", processing_batches |-> <<>>, i |-> 0]
    /\ mutations = {}
    /\ api_responses = {}
    /\ OtherIdle

\* ---------------------------------------------------------------- actions
\* The except handler of lines 455-468: the batch is written failed and the
\* request answers 500.
AbortWithoutWrite(step, e) ==
    /\ failed_step' = step
    /\ UNCHANGED comfyui_batches
    /\ response' = ErrorResponse(e)
    /\ pc' = "done"
Abort(step, e) ==
    /\ failed_step' = step
    /\ comfyui_batches' = FailedUpdate(comfyui_batches, batch_id, e)
    /\ response' = ErrorResponse(e)
    /\ pc' = "done"

\* Lines 207-250: mark the edit approved, read the siblings, and either
\* answer at once (no sibling) or insert the BatchJob row.
Approve ==
    /\ pc = "approve"
    /\ test' = [test EXCEPT !.status = "approved", !.approved_at = TRUE,
                            !.notes = <<"notes">>]
    /\ LET rows == SiblingsOf(carousel_images, test.image_id)
       IN  /\ other_images' = rows
           /\ IF rows = <<>>
              THEN /\ response' = [success |-> TRUE, error |-> Null, code |-> 200]
                   /\ pc' = "done"
                   /\ UNCHANGED <<comfyui_batches, batch_id>>
              ELSE /\ comfyui_batches' = Append(comfyui_batches,
                         [edit_test_id |-> 1,
                          status |-> "processing",
                          images_to_process |-> ImagesToProcess(rows),
                          completed_images |-> None,
                          error_message |-> Null,
                          completed_at |-> FALSE])
                   /\ batch_id' = Len(comfyui_batches) + 1
                   /\ pc' = "fetch_model"
                   /\ UNCHANGED response
    /\ UNCHANGED <<carousel_images, remote_input, heap, workflow_template,
                   workflow, instantiated, posted, prompt_ids, pose_index,
                   idx, attempt, output_filename, queries, last_poll,
                   saw_error, poll_results, submit_log, failed_step, storage,
                   completed_images>>
    /\ UNCHANGED sys_vars
    /\ UNCHANGED other_vars

\* Lines 256-260: download the approved edit's image.
FetchModel ==
    /\ pc = "fetch_model"
    /\ \E ok \in BOOLEAN :
         IF ok THEN /\ pc' = "upload_model"
                    /\ UNCHANGED <<comfyui_batches, response, failed_step>>
               ELSE Abort("fetch_model", "model download failed")
    /\ UNCHANGED <<carousel_images, test, other_images, batch_id,
                   remote_input, heap, workflow_template, workflow,
                   instantiated, posted, prompt_ids, pose_index, idx,
                   attempt, output_filename, queries, last_poll, saw_error,
                   poll_results, submit_log, storage, completed_images>>
    /\ UNCHANGED sys_vars
    /\ UNCHANGED other_vars

\* Lines 262-270: scp the model image to the Render Host (check=True).
UploadModel ==
    /\ pc = "upload_model"
    /\ \E ok \in BOOLEAN :
         IF ok THEN /\ remote_input' = (<<"model.jpg">> :> <<"edited", test.image_id>>)
                    /\ pc' = "mkdir"
                    /\ UNCHANGED <<comfyui_batches, response, failed_step>>
               ELSE /\ Abort("upload_model", "model scp failed")
                    /\ UNCHANGED remote_input
    /\ UNCHANGED <<carousel_images, test, other_images, batch_id, heap,
                   workflow_template, workflow, instantiated, posted,
                   prompt_ids, pose_index, idx, attempt, output_filename,
                   queries, last_poll, saw_error, poll_results, submit_log,
                   storage, completed_images>>
    /\ UNCHANGED sys_vars
    /\ UNCHANGED other_vars

\* Lines 274-279 with check=False: a failed mkdir goes unnoticed.
MakeFolderUnchecked ==
    /\ pc = "mkdir"
    /\ \E ok \in BOOLEAN :
         /\ failed_step' = IF ok THEN failed_step ELSE "mkdir"
         /\ pc' = "upload_pose"
         /\ idx' = 0
         /\ UNCHANGED <<comfyui_batches, response>>
    /\ UNCHANGED <<carousel_images, test, other_images, batch_id,
                   remote_input, heap, workflow_template, workflow,
                   instantiated, posted, prompt_ids, pose_index, attempt,
                   output_filename, queries, last_poll, saw_error,
                   poll_results, submit_log, storage, completed_images>>
    /\ UNCHANGED sys_vars
    /\ UNCHANGED other_vars

\* Lines 274-279: create the pose folder on the Render Host (check=True).
MakeFolder ==
    /\ pc = "mkdir"
    /\ \E ok \in BOOLEAN :
         IF ok THEN /\ pc' = "upload_pose"
                    /\ idx' = 0
                    /\ UNCHANGED <<comfyui_batches, response, failed_step>>
               ELSE /\ Abort("mkdir", "mkdir failed")
                    /\ UNCHANGED idx
    /\ UNCHANGED <<carousel_images, test, other_images, batch_id,
                   remote_input, heap, workflow_template, workflow,
                   instantiated, posted, prompt_ids, pose_index, attempt,
                   output_filename, queries, last_poll, saw_error,
                   poll_results, submit_log, storage, completed_images>>
    /\ UNCHANGED sys_vars
    /\ UNCHANGED other_vars

\* Lines 284-301: one iteration of the pose upload loop (download the
\* item's asset, scp it as pose{idx+1}.jpg into the pose folder).
\* Lines 284-301 with a loop that is left after its first iteration.
UploadPoseBreaksEarly ==
    /\ pc = "upload_pose"
    /\ idx < Len(other_images)
    /\ \E ok \in BOOLEAN :
         IF ok THEN /\ remote_input' = remote_input @@
                          (RemotePosePath(PoseFilename(idx)) :>
                               AssetUrl(other_images[idx + 1]))
                    /\ idx' = idx + 1
                    /\ pc' = "load_template"
                    /\ UNCHANGED <<comfyui_batches, response, failed_step>>
               ELSE /\ Abort("upload_pose", "pose upload failed")
                    /\ UNCHANGED <<remote_input, idx>>
    /\ UNCHANGED <<carousel_images, test, other_images, batch_id, heap,
                   workflow_template, workflow, instantiated, posted,
                   prompt_ids, pose_index, attempt, output_filename, queries,
                   last_poll, saw_error, poll_results, submit_log, storage,
                   completed_images>>
    /\ UNCHANGED sys_vars
    /\ UNCHANGED other_vars
UploadPose ==
    /\ pc = "upload_pose"
    /\ idx < Len(other_images)
    /\ \E ok \in BOOLEAN :
         IF ok THEN /\ remote_input' = remote_input @@
                          (RemotePosePath(PoseFilename(idx)) :>
                               AssetUrl(other_images[idx + 1]))
                    /\ idx' = idx + 1
                    /\ pc' = IF idx + 1 < Len(other_images)
                             THEN "upload_pose" ELSE "load_template"
                    /\ UNCHANGED <<comfyui_batches, response, failed_step>>
               ELSE /\ Abort("upload_pose", "pose upload failed")
                    /\ UNCHANGED <<remote_input, idx>>
    /\ UNCHANGED <<carousel_images, test, other_images, batch_id, heap,
                   workflow_template, workflow, instantiated, posted,
                   prompt_ids, pose_index, attempt, output_filename, queries,
                   last_poll, saw_error, poll_results, submit_log, storage,
                   completed_images>>
    /\ UNCHANGED sys_vars
    /\ UNCHANGED other_vars

\* Lines 306-314: read the workflow file; the environment decides what the
\* file holds.
LoadTemplate ==
    /\ pc = "load_template"
    /\ \/ /\ \E missing \in {{}} \cup {{n} : n \in BoundNodes} :
               heap' = <<TemplateFile(missing)>>
          /\ workflow_template' = 1
          /\ pose_index' = 0
          /\ pc' = "submit"
          /\ UNCHANGED <<comfyui_batches, response, failed_step>>
       \/ /\ Abort("load_template", "template unreadable")
          /\ UNCHANGED <<heap, workflow_template, pose_index>>
    /\ UNCHANGED <<carousel_images, test, other_images, batch_id,
                   remote_input, workflow, instantiated, posted, prompt_ids,
                   idx, attempt, output_filename, queries, last_poll,
                   saw_error, poll_results, submit_log, storage,
                   completed_images>>
    /\ UNCHANGED sys_vars
    /\ UNCHANGED other_vars

\* Lines 316-336: one iteration of the submit loop: copy the template, bind
\* the five slots, POST the graph, record the prompt_id if there is one.
Submit ==
    /\ pc = "submit"
    /\ pose_index < Len(other_images)
    /\ \E seed \in SeedValues, outcome \in {"accepted", "no_prompt_id", "error"} :
         LET c == DeepCopy(heap, workflow_template, Len(heap) + 1)
             b == BindSlots(c.heap, c.ref, batch_id, pose_index, seed)
         IN  /\ heap' = b.heap
             /\ workflow' = c.ref
             /\ IF b.raised
                THEN /\ Abort("bind", "KeyError")
                     /\ UNCHANGED <<instantiated, posted, prompt_ids,
                                    pose_index, submit_log>>
                ELSE /\ instantiated' = Append(instantiated, c.ref)
                     /\ submit_log' = Append(submit_log, outcome)
                     /\ IF outcome = "error"
                        THEN /\ Abort("submit", "submission failed")
                             /\ UNCHANGED <<posted, prompt_ids, pose_index>>
                        ELSE /\ posted' = posted @@
                                    ((pose_index + 1) :> b.heap[c.ref])
                             /\ prompt_ids' =
                                    IF outcome = "accepted"
                                    THEN Append(prompt_ids, JobId(pose_index + 1))
                                    ELSE prompt_ids
                             /\ pose_index' = pose_index + 1
                             /\ pc' = IF pose_index + 1 < Len(other_images)
                                      THEN "submit" ELSE "begin_poll"
                             /\ UNCHANGED <<comfyui_batches, response,
                                            failed_step>>
    /\ UNCHANGED <<carousel_images, test, other_images, batch_id,
                   remote_input, workflow_template, idx, attempt,
                   output_filename, queries, last_poll, saw_error,
                   poll_results, storage, completed_images>>
    /\ UNCHANGED sys_vars
    /\ UNCHANGED other_vars

\* Lines 341-353: write status 'processing' again and enter the poll loop.
BeginPolling ==
    /\ pc = "begin_poll"
    /\ comfyui_batches' = [comfyui_batches EXCEPT ![batch_id].status = "processing"]
    /\ completed_images' = <<>>
    /\ idx' = 0
    /\ attempt' = 0
    /\ output_filename' = None
    /\ queries' = 0
    /\ pc' = IF prompt_ids = <<>> THEN "finalize" ELSE "polling"
    /\ UNCHANGED <<carousel_images, test, other_images, batch_id,
                   remote_input, heap, workflow_template, workflow,
                   instantiated, posted, prompt_ids, pose_index, last_poll,
                   saw_error, poll_results, submit_log, failed_step, storage,
                   response>>
    /\ UNCHANGED sys_vars
    /\ UNCHANGED other_vars

\* Lines 355-384: one pass of the while loop: count the attempt, query the
\* history of prompt_ids[idx], and either leave the loop (completed flag
\* seen) or go back to the loop test.
PollAttempt ==
    /\ pc = "polling"
    /\ attempt < max_attempts
    /\ queries' = queries + 1
    /\ \E outcome \in {"error", "pending", "completed_no_images", "completed"} :
         /\ attempt' = NextAttempt(attempt, outcome)
         /\ last_poll' = [job |-> prompt_ids[idx + 1], outcome |-> outcome]
         /\ saw_error' = (saw_error \/ outcome = "error")
         /\ output_filename' = IF outcome = "completed"
                               THEN <<"history", prompt_ids[idx + 1]>>
                               ELSE output_filename
         /\ pc' = IF LeavesLoop(outcome, attempt') THEN "polled" ELSE "polling"
    /\ UNCHANGED <<carousel_images, test, other_images, comfyui_batches,
                   batch_id, remote_input, heap, workflow_template, workflow,
                   instantiated, posted, prompt_ids, pose_index, idx,
                   poll_results, submit_log, failed_step, storage,
                   completed_images, response>>
    /\ UNCHANGED sys_vars
    /\ UNCHANGED other_vars

\* Lines 386-424: after the while loop: skip the item when no filename was
\* found, else download {batch_id}_pose{idx+1}_00001_.png and store it; then
\* go on with the next prompt_id.
RetrieveBreaksOnFailure ==
    /\ pc = "polled"
    /\ IF ~Retrieves(output_filename)
       THEN /\ poll_results' = Append(poll_results,
                   [job |-> prompt_ids[idx + 1],
                    seen |-> PollVerdict(last_poll.outcome),
                    result |-> "skipped",
                    filename |-> None,
                    path |-> None])
            /\ UNCHANGED <<storage, completed_images>>
       ELSE \E outcome \in {"stored", "download_failed", "upload_failed"} :
              /\ poll_results' = Append(poll_results,
                     [job |-> prompt_ids[idx + 1],
                      seen |-> PollVerdict(last_poll.outcome),
                      result |-> IF outcome = "stored" THEN "stored" ELSE "failed",
                      filename |-> ActualFilename(batch_id, idx),
                      path |-> StoragePath(batch_id, idx)])
              /\ IF outcome = "stored"
                 THEN /\ storage' = storage \cup {StoragePath(batch_id, idx)}
                      /\ completed_images' = Append(completed_images,
                             PublicUrl(StoragePath(batch_id, idx)))
                 ELSE UNCHANGED <<storage, completed_images>>
    /\ idx' = idx + 1
    /\ attempt' = 0
    /\ queries' = 0
    /\ output_filename' = None
    /\ last_poll' = None
    /\ saw_error' = FALSE
    /\ pc' = IF /\ idx + 1 < Len(prompt_ids)
                /\ poll_results'[Len(poll_results')].result # "failed"
             THEN "polling" ELSE "finalize"
    /\ UNCHANGED <<carousel_images, test, other_images, comfyui_batches,
                   batch_id, remote_input, heap, workflow_template, workflow,
                   instantiated, posted, prompt_ids, pose_index, submit_log,
                   failed_step, response>>
    /\ UNCHANGED sys_vars
    /\ UNCHANGED other_vars
Retrieve ==
    /\ pc = "polled"
    /\ IF ~Retrieves(output_filename)
       THEN /\ poll_results' = Append(poll_results,
                   [job |-> prompt_ids[idx + 1],
                    seen |-> PollVerdict(last_poll.outcome),
                    result |-> "skipped",
                    filename |-> None,
                    path |-> None])
            /\ UNCHANGED <<storage, completed_images>>
       ELSE \E outcome \in {"stored", "download_failed", "upload_failed"} :
              /\ poll_results' = Append(poll_results,
                     [job |-> prompt_ids[idx + 1],
                      seen |-> PollVerdict(last_poll.outcome),
                      result |-> IF outcome = "stored" THEN "stored" ELSE "failed",
                      filename |-> ActualFilename(batch_id, idx),
                      path |-> StoragePath(batch_id, idx)])
              /\ IF outcome = "stored"
                 THEN /\ storage' = storage \cup {StoragePath(batch_id, idx)}
                      /\ completed_images' = Append(completed_images,
                             PublicUrl(StoragePath(batch_id, idx)))
                 ELSE UNCHANGED <<storage, completed_images>>
    /\ idx' = idx + 1
    /\ attempt' = 0
    /\ queries' = 0
    /\ output_filename' = None
    /\ last_poll' = None
    /\ saw_error' = FALSE
    /\ pc' = IF idx + 1 < Len(prompt_ids) THEN "polling" ELSE "finalize"
    /\ UNCHANGED <<carousel_images, test, other_images, comfyui_batches,
                   batch_id, remote_input, heap, workflow_template, workflow,
                   instantiated, posted, prompt_ids, pose_index, submit_log,
                   failed_step, response>>
    /\ UNCHANGED sys_vars
    /\ UNCHANGED other_vars

\* Lines 426-453: the terminal write and the response.
Finalize ==
    /\ pc = "finalize"
    /\ IF completed_images # <<>>
       THEN /\ comfyui_batches' =
                 [comfyui_batches EXCEPT ![batch_id].status = "completed",
                                         ![batch_id].completed_images = completed_images,
                                         ![batch_id].completed_at = TRUE]
            /\ response' = [success |-> TRUE, error |-> Null, code |-> 200,
                            generated |-> Len(completed_images),
                            of |-> Len(prompt_ids)]
       ELSE /\ comfyui_batches' =
                 FailedUpdate(comfyui_batches, batch_id,
                              "All workflows timed out or failed")
            /\ response' = ErrorResponse(
                              "All workflows timed out or failed. Check RunPod ComfyUI.")
    /\ pc' = "done"
    /\ UNCHANGED <<carousel_images, test, other_images, batch_id,
                   remote_input, heap, workflow_template, workflow,
                   instantiated, posted, prompt_ids, pose_index, idx,
                   attempt, output_filename, queries, last_poll, saw_error,
                   poll_results, submit_log, failed_step, storage,
                   completed_images>>
    /\ UNCHANGED sys_vars
    /\ UNCHANGED other_vars

Next ==
    \/ Approve
    \/ FetchModel
    \/ UploadModel
    \/ MakeFolder
    \/ UploadPose
    \/ LoadTemplate
    \/ Submit
    \/ BeginPolling
    \/ PollAttempt
    \/ Retrieve
    \/ Finalize

Spec == Init /\ [][Next]_vars

\* ------------------------------------------------------------- properties
\* Number of entries the BatchJob row holds in completed_images.
RecordedCount(b) ==
    IF b.completed_images = None THEN 0 ELSE Len(b.completed_images)

\* The public reference expected for the output of the item at position k.
ExpectedUrl(k) ==
    <<"public", "carousel-images", "pose_transfers", batch_id, "_pose", k, ".png">>

\* Elements of a sequence.
Range(seq) == {seq[i] : i \in 1..Len(seq)}

\* C1: when a run that created a BatchJob over N >= 1 siblings has returned,
\* the row holds between 0 and N completed images, its status is terminal,
\* and the status is 'failed' exactly when it holds none.
C1_CompletedCountAndStatus ==
    (pc = "done" /\ batch_id # 0) =>
        LET b == comfyui_batches[batch_id]
            k == RecordedCount(b)
        IN  /\ Len(other_images) >= 1
            /\ k >= 0
            /\ k <= Len(other_images)
            /\ b.status \in {"completed", "failed"}
            /\ (b.status = "failed") <=> (k = 0)

\* C1 witness: a returned run with partial success (some but not all items).
C1_Witness ==
    /\ pc = "done"
    /\ batch_id # 0
    /\ comfyui_batches[batch_id].status = "completed"
    /\ RecordedCount(comfyui_batches[batch_id]) >= 1
    /\ RecordedCount(comfyui_batches[batch_id]) < Len(other_images)
    /\ \E i \in 1..Len(poll_results) : poll_results[i].result = "failed"

\* C2: a submission that fails (transport or HTTP error, or an answer without
\* prompt_id) records no job identifier for its item, does not abort the
\* batch, and every later item is still submitted.
C2_SubmissionFailureSkipsOnlyThatItem ==
    \A k \in 1..Len(submit_log) :
        submit_log[k] \in {"error", "no_prompt_id"} =>
            /\ JobId(k) \notin Range(prompt_ids)
            /\ failed_step # "submit"
            /\ (pc = "done" => Len(submit_log) = Len(other_images))

\* Positions whose poll loop ran out of attempts / whose output was stored.
TimedOutItems == {i \in 1..Len(poll_results) : poll_results[i].seen = "timed_out"}
StoredItems == {i \in 1..Len(poll_results) : poll_results[i].result = "stored"}

\* C3: when all N items were submitted and some item k ran out of poll
\* attempts, item k is neither downloaded nor stored, every item was polled
\* in turn, each item that was stored is in the recorded list, and the batch
\* is 'completed' with exactly the stored outputs whenever there is one.
C3_TimeoutIsolated ==
    (pc = "done" /\ batch_id # 0 /\ Len(prompt_ids) = Len(other_images)
        /\ TimedOutItems # {}) =>
        LET b == comfyui_batches[batch_id]
        IN  /\ Len(poll_results) = Len(other_images)
            /\ \A i \in 1..Len(poll_results) : poll_results[i].job = JobId(i)
            /\ \A k \in TimedOutItems :
                 /\ poll_results[k].filename = None
                 /\ poll_results[k].result = "skipped"
                 /\ ExpectedUrl(k) \notin Range(completed_images)
            /\ \A j \in StoredItems : ExpectedUrl(j) \in Range(completed_images)
            /\ Len(completed_images) = Cardinality(StoredItems)
            /\ StoredItems # {} =>
                 /\ b.status = "completed"
                 /\ b.completed_images = completed_images
            /\ StoredItems = {} => b.status = "failed"

\* C3 witness: three siblings, item 2 timed out, items 1 and 3 stored.
C3_Witness ==
    /\ pc = "done"
    /\ Len(other_images) = 3
    /\ Len(prompt_ids) = 3
    /\ TimedOutItems = {2}
    /\ StoredItems = {1, 3}
    /\ comfyui_batches[batch_id].status = "completed"
    /\ comfyui_batches[batch_id].completed_images = <<ExpectedUrl(1), ExpectedUrl(3)>>

\* C4: no job is queried more than max_attempts times, and the attempt
\* counter counts every query made for the job, failed ones included.
C4_PollBounded ==
    /\ queries <= max_attempts
    /\ attempt = queries
    /\ (pc = "polling" => attempt < max_attempts)

\* C4 witness: a poll loop that ended at the ceiling after a failed query.
C4_Witness ==
    /\ pc = "polled"
    /\ queries = max_attempts
    /\ saw_error
    /\ output_filename = None

\* C5: after a query that raised, with attempts left, the loop is still
\* polling the same job and the batch is still in progress; and a completed
\* answer after an earlier error leaves the loop with a filename, so the item
\* goes on to retrieval.
C5_PollErrorTolerated ==
    /\ (last_poll # None /\ last_poll.outcome = "error" /\ attempt < max_attempts) =>
          /\ pc = "polling"
          /\ prompt_ids[idx + 1] = last_poll.job
          /\ comfyui_batches[batch_id].status = "processing"
          /\ failed_step = "none"
    /\ (last_poll # None /\ last_poll.outcome = "completed" /\ saw_error) =>
          /\ pc = "polled"
          /\ Retrieves(output_filename)

\* C5 witness: a job whose first query raised and whose later query
\* reported completion.
C5_Witness ==
    /\ pc = "polled"
    /\ saw_error
    /\ last_poll.outcome = "completed"
    /\ output_filename # None
    /\ attempt >= 2

\* C6: for every position k of the sibling list, the remote file pose{k}.jpg
\* (once uploaded) holds the asset of the item at position k, which is also
\* the asset snapshotted for k in images_to_process; and the graph posted for
\* position k reads that very file and writes under {batch_id}_pose{k}.
C6_OrderPreserved ==
    \A k \in 1..Len(other_images) :
        /\ <<"pose_folder", "pose", k, ".jpg">> \in DOMAIN remote_input =>
             /\ remote_input[<<"pose_folder", "pose", k, ".jpg">>]
                    = AssetUrl(other_images[k])
             /\ remote_input[<<"pose_folder", "pose", k, ".jpg">>]
                    = comfyui_batches[batch_id].images_to_process[k].url
        /\ k \in DOMAIN posted =>
             /\ posted[k]["179"] = <<"pose_folder", "pose", k, ".jpg">>
             /\ posted[k]["179"] \in DOMAIN remote_input
             /\ remote_input[posted[k]["179"]] = AssetUrl(other_images[k])
             /\ posted[k]["94"] = <<batch_id, "_pose", k>>

\* C6 witness: three siblings whose positions differ from their image ids,
\* all uploaded and all posted.
C6_Witness ==
    /\ pc = "begin_poll"
    /\ Len(other_images) = 3
    /\ test.image_id = 2
    /\ DOMAIN posted = 1..3
    /\ remote_input[<<"pose_folder", "pose", 1, ".jpg">>] = <<"local", 1>>
    /\ remote_input[<<"pose_folder", "pose", 2, ".jpg">>] = <<"local", 3>>
    /\ remote_input[<<"pose_folder", "pose", 3, ".jpg">>] = <<"instagram", 4>>

\* C7: every download made for a polled job asks for the file written by
\* that job's graph, and stores it under the position the job was submitted
\* for.
C7_RetrievalUsesSubmittedPosition ==
    \A i \in 1..Len(poll_results) :
        LET r == poll_results[i]
            p == PositionOfJob(r.job)
        IN  r.filename # None =>
              /\ r.filename = SavedFileOf(posted[p]["94"])
              /\ r.path = <<"pose_transfers", batch_id, "_pose", p, ".png">>

\* C8: the loaded template keeps the content of the workflow file, every
\* instantiated graph is an object of its own, and each graph built so far
\* still holds the values bound for its own item (those that were posted).
C8_InstantiationIsolated ==
    /\ workflow_template # 0 =>
         \A n \in DOMAIN heap[workflow_template] :
             heap[workflow_template][n] = <<"template", n>>
    /\ \A k \in 1..Len(instantiated) :
         /\ instantiated[k] # workflow_template
         /\ \A j \in 1..Len(instantiated) :
                j # k => instantiated[j] # instantiated[k]
         /\ heap[instantiated[k]]["78"] = <<"model.jpg">>
         /\ heap[instantiated[k]]["179"] = <<"pose_folder", "pose", k, ".jpg">>
         /\ heap[instantiated[k]]["94"] = <<batch_id, "_pose", k>>
         /\ heap[instantiated[k]][OtherNode] = <<"template", OtherNode>>
         /\ k \in DOMAIN posted => heap[instantiated[k]] = posted[k]

\* C8 witness: three graphs instantiated from one template, with two
\* different seeds among them.
C8_Witness ==
    /\ pc = "begin_poll"
    /\ Len(instantiated) = 3
    /\ heap[instantiated[1]]["74"] # heap[instantiated[3]]["74"]

\* The loaded template lacks one of the nodes approve_edit binds.
TemplateLacksSlot ==
    /\ workflow_template # 0
    /\ ~(BoundNodes \subseteq DOMAIN heap[workflow_template])

\* C9: when the loaded template lacks a bound node, nothing is ever posted,
\* no job identifier is recorded, the first iteration of the submit loop ends
\* the run, and the BatchJob is then 'failed' with an error message.
C9_MissingSlotIsFatal ==
    TemplateLacksSlot =>
        /\ posted = <<>>
        /\ submit_log = <<>>
        /\ prompt_ids = <<>>
        /\ poll_results = <<>>
        /\ pc \in {"submit", "done"}
        /\ pc = "submit" => pose_index = 0
        /\ pc = "done" =>
             /\ failed_step = "bind"
             /\ comfyui_batches[batch_id].status = "failed"
             /\ comfyui_batches[batch_id].error_message # Null
             /\ comfyui_batches[batch_id].completed_images = None
             /\ response.success = FALSE

\* C9 witness: a batch of three siblings that ended on a missing node.
C9_Witness ==
    /\ TemplateLacksSlot
    /\ pc = "done"
    /\ Len(other_images) = 3
    /\ "94" \notin DOMAIN heap[workflow_template]
    /\ comfyui_batches[batch_id].status = "failed"

\* C10: once a shared setup step (model download, model upload, pose folder
\* creation) has failed, the run is over: the BatchJob is 'failed' with an
\* error message, no pose file was uploaded, nothing was posted or polled.
C10_SharedSetupFailureAborts ==
    failed_step \in {"fetch_model", "upload_model", "mkdir"} =>
        /\ pc = "done"
        /\ comfyui_batches[batch_id].status = "failed"
        /\ comfyui_batches[batch_id].error_message # Null
        /\ response # None
        /\ response.success = FALSE
        /\ \A f \in DOMAIN remote_input : f = <<"model.jpg">>
        /\ workflow_template = 0
        /\ posted = <<>>
        /\ submit_log = <<>>
        /\ prompt_ids = <<>>
        /\ queries = 0
        /\ last_poll = None
        /\ poll_results = <<>>
        /\ storage = {}

\* C10 witness: the pose folder could not be created after the model image
\* had been uploaded.
C10_Witness ==
    /\ failed_step = "mkdir"
    /\ pc = "done"
    /\ DOMAIN remote_input = {<<"model.jpg">>}
    /\ Len(other_images) >= 2

\* The carousel holds no image other than the edited one.
NoSibling == \A i \in 1..Len(carousel_images) : carousel_images[i].id = test.image_id

\* C11: when the carousel of the approved edit has no sibling image, the
\* request answers success at once: no BatchJob row is created, nothing is
\* uploaded, nothing is posted and no history query is made.
C11_NoSiblingNoBatch ==
    (NoSibling /\ pc # "approve") =>
        /\ pc = "done"
        /\ response.success = TRUE
        /\ response.code = 200
        /\ test.status = "approved"
        /\ comfyui_batches = <<>>
        /\ batch_id = 0
        /\ remote_input = <<>>
        /\ posted = <<>>
        /\ submit_log = <<>>
        /\ prompt_ids = <<>>
        /\ queries = 0
        /\ last_poll = None
        /\ poll_results = <<>>
        /\ storage = {}

\* C11 witness: the request for a one-image carousel has returned.
C11_Witness ==
    /\ NoSibling
    /\ pc = "done"
    /\ response.success = TRUE
    /\ comfyui_batches = <<>>

\* Every POST was accepted and every polled job ended stored.
AllItemsStored ==
    /\ Len(submit_log) = Len(other_images)
    /\ \A k \in 1..Len(submit_log) : submit_log[k] = "accepted"
    /\ Len(poll_results) = Len(other_images)
    /\ \A i \in 1..Len(poll_results) : poll_results[i].result = "stored"

\* C12: when all N items were submitted, polled to completion, downloaded
\* and stored, the BatchJob ends 'completed' with exactly N entries, the
\* n-th being the public reference of pose_transfers/{batch_id}_pose{n}.png.
C12_AllSucceed ==
    (pc = "done" /\ batch_id # 0 /\ AllItemsStored) =>
        LET b == comfyui_batches[batch_id]
        IN  /\ b.status = "completed"
            /\ Len(b.completed_images) = Len(other_images)
            /\ \A n \in 1..Len(other_images) :
                 /\ b.completed_images[n] = ExpectedUrl(n)
                 /\ <<"pose_transfers", batch_id, "_pose", n, ".png">> \in storage
            /\ b.error_message = Null
            /\ response.success = TRUE

\* C12 witness: three siblings, all three stored.
C12_Witness ==
    /\ pc = "done"
    /\ Len(other_images) = 3
    /\ AllItemsStored
    /\ Len(comfyui_batches[batch_id].completed_images) = 3

\* The positions of the request that may follow each position.
NextPositions(p) ==
    CASE p = "approve" -> {"fetch_model", "done"}
      [] p = "fetch_model" -> {"upload_model", "done"}
      [] p = "upload_model" -> {"mkdir", "done"}
      [] p = "mkdir" -> {"upload_pose", "done"}
      [] p = "upload_pose" -> {"upload_pose", "load_template", "done"}
      [] p = "load_template" -> {"submit", "done"}
      [] p = "submit" -> {"submit", "begin_poll", "done"}
      [] p = "begin_poll" -> {"polling", "finalize"}
      [] p = "polling" -> {"polling", "polled"}
      [] p = "polled" -> {"polling", "finalize"}
      [] p = "finalize" -> {"done"}
      [] p = "done" -> {}

\* Some remote action of the pipeline has been made.
RemoteActionMade ==
    \/ remote_input # <<>>
    \/ submit_log # <<>>
    \/ last_poll # None
    \/ poll_results # <<>>
    \/ pc \in {"upload_model", "mkdir", "upload_pose", "load_template", "submit",
               "begin_poll", "polling", "polled", "finalize"}

\* The poses uploaded so far are pose1..pose{n} for some n.
PosesUploaded(n) ==
    \A k \in 1..Len(other_images) :
        (<<"pose_folder", "pose", k, ".jpg">> \in DOMAIN remote_input) <=> (k <= n)

\* What holds in every state of a phase-ordered, strictly sequential run.
SequentialState ==
    /\ RemoteActionMade => (batch_id # 0 /\ batch_id \in DOMAIN comfyui_batches)
    /\ pc \in {"mkdir", "upload_pose"} => <<"model.jpg">> \in DOMAIN remote_input
    /\ (\E n \in 1..Len(other_images) : PosesUploaded(n)) =>
           <<"model.jpg">> \in DOMAIN remote_input
    /\ \E n \in 0..Len(other_images) : PosesUploaded(n)
    /\ pc = "upload_pose" => PosesUploaded(idx)
    /\ submit_log # <<>> => PosesUploaded(Len(other_images))
    /\ pc = "submit" => (Len(submit_log) = pose_index /\ DOMAIN posted = 1..pose_index)
    /\ \A i \in 1..Len(prompt_ids) : \A j \in 1..Len(prompt_ids) :
           i < j => PositionOfJob(prompt_ids[i]) < PositionOfJob(prompt_ids[j])
    /\ (queries > 0 \/ last_poll # None \/ poll_results # <<>>) =>
           /\ Len(submit_log) = Len(other_images)
           /\ failed_step = "none"
    /\ \A i \in 1..Len(poll_results) : poll_results[i].job = prompt_ids[i]
    /\ pc \in {"polling", "polled"} => Len(poll_results) = idx
    /\ last_poll # None =>
           /\ pc \in {"polling", "polled"}
           /\ last_poll.job = prompt_ids[idx + 1]

\* C16: one request runs its phases in the fixed order (record, model
\* upload, folder, pose uploads, submissions, polls), items are uploaded,
\* submitted and polled in list order, and only the job at the current poll
\* index is being polled, all earlier ones having been dealt with.
C16_StrictlySequential ==
    /\ []SequentialState
    /\ [][pc' \in NextPositions(pc)]_vars

\* C16 witness: the third of three jobs is being polled after a query.
C16_Witness ==
    /\ pc = "polling"
    /\ Len(other_images) = 3
    /\ Len(prompt_ids) = 3
    /\ idx = 2
    /\ queries >= 1
    /\ Len(poll_results) = 2

\* C17: a failure while fetching or uploading one item's pose asset only
\* skips that item: the run goes on, the other items are still uploaded,
\* submitted and polled, and the batch is 'failed' only if no item was stored.
C17_PoseUploadFailureSkipsItem ==
    failed_step = "upload_pose" =>
        /\ pc = "done" =>
             /\ Len(submit_log) >= Len(other_images) - 1
             /\ (Len(other_images) >= 2 => Len(poll_results) + Len(submit_log) > 0)
        /\ (comfyui_batches[batch_id].status = "failed" => pc = "done" /\ storage = {})
        /\ comfyui_batches[batch_id].error_message # "pose upload failed"

\* C18: a returned run answers success with 'Generated K/N', K the number of
\* stored outputs and N the number of sibling items, whenever K >= 1, and
\* answers failure only when K = 0.
C18_BestEffortSummary ==
    (pc = "done" /\ batch_id # 0) =>
        IF Cardinality(storage) >= 1
        THEN /\ response.success = TRUE
             /\ response.generated = Cardinality(storage)
             /\ response.of = Len(other_images)
        ELSE response.success = FALSE

\* The latest history query showed the job with its completed flag set.
CompletedFlagSeen ==
    /\ last_poll # None
    /\ last_poll.outcome \in {"completed", "completed_no_images"}

\* While attempts remain, a pending answer keeps the item in polling.
PendingStaysPolling ==
    (last_poll # None /\ last_poll.outcome = "pending" /\ attempt < max_attempts) =>
        /\ pc = "polling"
        /\ last_poll.job = prompt_ids[idx + 1]

CompletedFlagState ==
    /\ CompletedFlagSeen =>
         /\ pc = "polled"
         /\ last_poll.job = prompt_ids[idx + 1]
         /\ last_poll.outcome = "completed" =>
                /\ output_filename = <<"history", last_poll.job>>
                /\ Retrieves(output_filename)
         /\ last_poll.outcome = "completed_no_images" => ~Retrieves(output_filename)
    /\ \A i \in 1..Len(poll_results) :
         /\ poll_results[i].seen = "completed" =>
                /\ poll_results[i].filename # None
                /\ poll_results[i].result \in {"stored", "failed"}
         /\ poll_results[i].seen = "completed_no_images" =>
                /\ poll_results[i].filename = None
                /\ poll_results[i].result = "skipped"
    /\ PendingStaysPolling

Requests == {1, 2}

\* The ids that submit_edit requests give to their rows of edit_tests.
EditIds == {1}

\* Changes other clients make to carousel_images.
MutationKinds == {"insert", "delete", "reorder", "local_path"}

\* A request that has not arrived yet.
IdleRequest ==
    [pc |-> "idle", test_id |-> 0, batch_id |-> 0, image_id |-> 0,
     other_images |-> <<>>, uploaded |-> <<>>, submitted |-> <<>>,
     prompt_ids |-> <<>>]

\* A request that has returned: its local variables are gone; the ids it
\* worked on are kept for reference.
Returned(req) ==
    [IdleRequest EXCEPT !.pc = "done", !.test_id = req.test_id,
                        !.batch_id = req.batch_id, !.image_id = req.image_id]

\* The sequence both loops iterate: the local variable other_images.data,
\* read once by the query at line 232.
LoopItemsRequeried(snapshot, rows, image_id) == SiblingsOf(rows, image_id)
LoopItems(snapshot, rows, image_id) == snapshot

\* The terminal update of approve_edit's normal path (lines 426-431).
CompletedUpdateByEdit(rows, b, urls) ==
    [k \in 1..Len(rows) |->
        IF rows[k].edit_test_id = rows[b].edit_test_id
        THEN [rows[k] EXCEPT !.status = "completed",
                             !.completed_images = urls,
                             !.completed_at = TRUE]
        ELSE rows[k]]
CompletedUpdate(rows, b, urls) ==
    [rows EXCEPT ![b].status = "completed",
                 ![b].completed_images = urls,
                 ![b].completed_at = TRUE]

\* The update the clear script sends for one batch (lines 35-38).
ClearUpdate(rows, b) ==
    [rows EXCEPT ![b].status = "completed", ![b].completed_at = TRUE]

\* Ids of the batches a status query returns.
IdsWithStatus(rows, st) ==
    SelectSeq([b \in 1..Len(rows) |-> b], LAMBDA b : rows[b].status = st)

\* Increasing sequence of the members of a set of positions.
RECURSIVE SortedSeq(_)
SortedSeq(S) ==
    IF S = {} THEN <<>>
    ELSE LET m == CHOOSE x \in S : \A y \in S : x <= y
         IN  <<m>> \o SortedSeq(S \ {m})

\* The single-request view is not running.
DetailIdle ==
    /\ pc = "approve"
    /\ test = [image_id |-> 1, status |-> "completed", notes |-> None,
               approved_at |-> FALSE]
    /\ other_images = <<>>
    /\ batch_id = 0
    /\ remote_input = <<>>
    /\ heap = <<>>
    /\ workflow_template = 0
    /\ workflow = 0
    /\ instantiated = <<>>
    /\ posted = <<>>
    /\ prompt_ids = <<>>
    /\ pose_index = 0
    /\ idx = 0
    /\ attempt = 0
    /\ output_filename = None
    /\ queries = 0
    /\ last_poll = None
    /\ saw_error = FALSE
    /\ poll_results = <<>>
    /\ submit_log = <<>>
    /\ failed_step = "none"
    /\ storage = {}
    /\ completed_images = <<>>
    /\ response = None

InitSys ==
    /\ carousel_images = [i \in 1..(MaxImages - 1) |-> Image(i)]
    /\ comfyui_batches = <<>>
    /\ edit_tests = <<>>
    /\ requests = [r \in Requests |-> IdleRequest]
    /\ submitting = {}
    /\ clear = [pc |-> "idle", processing_batches |-> <<>>, i |-> 0]
    /\ mutations = {}
    /\ api_responses = {}
    /\ OtherIdle
    /\ DetailIdle

\* submit_edit, lines 95-111: look the image up and insert the edit row
\* with status 'processing'.
SubmitEditInsert ==
    /\ Len(edit_tests) + 1 \in EditIds
    /\ \E k \in 1..Len(carousel_images) :
          edit_tests' = Append(edit_tests,
              [image_id |-> carousel_images[k].id,
               status |-> "processing",
               nanabana_result_url |-> None,
               notes |-> Null,
               approved_at |-> None,
               completed_at |-> FALSE])
    /\ submitting' = submitting \cup {Len(edit_tests) + 1}
    /\ UNCHANGED <<carousel_images, comfyui_batches, requests, clear, mutations>>
    /\ UNCHANGED detail_vars
    /\ UNCHANGED other_vars
    /\ UNCHANGED api_responses

\* submit_edit, lines 113-174: the Edit API answers; the row is updated to
\* 'completed' with the result, or to 'rejected' with the error as notes.
SubmitEditFinish ==
    \E t \in submitting : \E ok \in BOOLEAN :
        /\ edit_tests' =
             IF ok
             THEN [edit_tests EXCEPT ![t].nanabana_result_url = <<"out", 1>>,
                                     ![t].status = "completed",
                                     ![t].completed_at = TRUE]
             ELSE [edit_tests EXCEPT ![t].status = "rejected",
                                     ![t].notes = "edit api error"]
        /\ submitting' = submitting \ {t}
        /\ UNCHANGED <<carousel_images, comfyui_batches, requests, clear, mutations>>
        /\ UNCHANGED detail_vars
        /\ UNCHANGED other_vars
        /\ UNCHANGED api_responses

\* reject_edit, lines 471-486.
RejectEdit ==
    \E t \in DOMAIN edit_tests :
        /\ edit_tests' = [edit_tests EXCEPT ![t].status = "rejected",
                                            ![t].notes = "rejected by user"]
        /\ UNCHANGED <<carousel_images, comfyui_batches, requests, submitting,
                       clear, mutations>>
        /\ UNCHANGED detail_vars
        /\ UNCHANGED other_vars
        /\ UNCHANGED api_responses

\* approve_edit, lines 216-221: the edit row is marked approved, whatever
\* its status was.  The timestamp is the moment of this request.
ApproveUpdate(r) ==
    /\ requests[r].pc = "idle"
    /\ \A q \in Requests : q < r => requests[q].pc # "idle"
    /\ \E t \in DOMAIN edit_tests :
        /\ edit_tests' = [edit_tests EXCEPT ![t].status = "approved",
                                            ![t].approved_at = <<"at", r>>,
                                            ![t].notes = "approved by user"]
        /\ requests' = [requests EXCEPT ![r].pc = "read", ![r].test_id = t]
    /\ UNCHANGED <<carousel_images, comfyui_batches, submitting, clear, mutations>>
    /\ UNCHANGED detail_vars
    /\ UNCHANGED other_vars
    /\ UNCHANGED api_responses

\* approve_edit, lines 224-250: read the edit row and the siblings; with no
\* sibling the request returns, otherwise it inserts its batch row.
ApproveRead(r) ==
    /\ requests[r].pc = "read"
    /\ LET image_id == edit_tests[requests[r].test_id].image_id
           rows == SiblingsOf(carousel_images, image_id)
       IN  IF rows = <<>>
           THEN /\ requests' = [requests EXCEPT ![r].pc = "done",
                                                ![r].image_id = image_id]
                /\ UNCHANGED comfyui_batches
           ELSE /\ comfyui_batches' = Append(comfyui_batches,
                      [edit_test_id |-> requests[r].test_id,
                       status |-> "processing",
                       images_to_process |-> ImagesToProcess(rows),
                       completed_images |-> None,
                       error_message |-> Null,
                       completed_at |-> FALSE])
                /\ requests' = [requests EXCEPT
                                  ![r].pc = "setup",
                                  ![r].image_id = image_id,
                                  ![r].other_images = rows,
                                  ![r].batch_id = Len(comfyui_batches) + 1]
    /\ UNCHANGED <<carousel_images, edit_tests, submitting, clear, mutations>>
    /\ UNCHANGED detail_vars
    /\ UNCHANGED other_vars
    /\ UNCHANGED api_responses

\* approve_edit, lines 252-303: model image, folder and the pose upload
\* loop.  Any failure goes to the except handler (lines 455-468).
ApproveUploads(r) ==
    /\ requests[r].pc = "setup"
    /\ \E ok \in BOOLEAN :
          IF ok
          THEN LET items == LoopItems(requests[r].other_images, carousel_images,
                                      requests[r].image_id)
               IN  /\ requests' = [requests EXCEPT
                          ![r].pc = "submit",
                          ![r].uploaded = [k \in 1..Len(items) |-> AssetUrl(items[k])]]
                   /\ UNCHANGED comfyui_batches
          ELSE /\ comfyui_batches' = FailedUpdate(comfyui_batches,
                                         requests[r].batch_id, "setup failed")
               /\ requests' = [requests EXCEPT ![r] = Returned(requests[r])]
    /\ UNCHANGED <<carousel_images, edit_tests, submitting, clear, mutations>>
    /\ UNCHANGED detail_vars
    /\ UNCHANGED other_vars
    /\ UNCHANGED api_responses

\* approve_edit, lines 305-343: template, submission loop and the
\* 'processing' update.  accepted are the positions whose response carried
\* a prompt_id.
ApproveSubmits(r) ==
    /\ requests[r].pc = "submit"
    /\ LET items == LoopItems(requests[r].other_images, carousel_images,
                              requests[r].image_id)
       IN  \E ok \in BOOLEAN : \E accepted \in SUBSET (1..Len(items)) :
             IF ok
             THEN /\ requests' = [requests EXCEPT
                         ![r].pc = "poll",
                         ![r].submitted = [k \in 1..Len(items) |-> items[k].id],
                         ![r].prompt_ids = SortedSeq(accepted)]
                  /\ comfyui_batches' =
                         [comfyui_batches EXCEPT
                             ![requests[r].batch_id].status = "processing"]
             ELSE /\ accepted = {}
                  /\ comfyui_batches' = FailedUpdate(comfyui_batches,
                                            requests[r].batch_id, "submit failed")
                  /\ requests' = [requests EXCEPT ![r] = Returned(requests[r])]
    /\ UNCHANGED <<carousel_images, edit_tests, submitting, clear, mutations>>
    /\ UNCHANGED detail_vars
    /\ UNCHANGED other_vars
    /\ UNCHANGED api_responses

\* approve_edit, lines 345-453: the polling and retrieval loop and the
\* terminal update.  stored are the 0-based indexes into prompt_ids whose
\* result was downloaded and uploaded to storage.
ApprovePolls(r) ==
    /\ requests[r].pc = "poll"
    /\ \E stored \in SUBSET (1..Len(requests[r].prompt_ids)) :
          LET urls == [k \in 1..Cardinality(stored) |->
                          PublicUrl(StoragePath(requests[r].batch_id,
                                                SortedSeq(stored)[k] - 1))]
          IN  comfyui_batches' =
                 IF urls # <<>>
                 THEN CompletedUpdate(comfyui_batches, requests[r].batch_id, urls)
                 ELSE FailedUpdate(comfyui_batches, requests[r].batch_id,
                                   "All workflows timed out or failed")
    /\ requests' = [requests EXCEPT ![r] = Returned(requests[r])]
    /\ UNCHANGED <<carousel_images, edit_tests, submitting, clear, mutations>>
    /\ UNCHANGED detail_vars
    /\ UNCHANGED other_vars
    /\ UNCHANGED api_responses

\* clear_processing_batches, lines 19-25: one query for the batches whose
\* status is 'processing'.
ClearRead ==
    /\ clear.pc = "idle"
    /\ LET ids == IdsWithStatus(comfyui_batches, "processing")
       IN  clear' = IF ids = <<>>
                    THEN [pc |-> "done", processing_batches |-> <<>>, i |-> 0]
                    ELSE [pc |-> "loop", processing_batches |-> ids, i |-> 1]
    /\ UNCHANGED <<carousel_images, comfyui_batches, edit_tests, requests,
                   submitting, mutations>>
    /\ UNCHANGED detail_vars
    /\ UNCHANGED other_vars
    /\ UNCHANGED api_responses

\* clear_processing_batches, lines 29-40: one pass of the loop over the
\* rows that the query returned.
ClearWrite ==
    /\ clear.pc = "loop"
    /\ comfyui_batches' = ClearUpdate(comfyui_batches,
                                      clear.processing_batches[clear.i])
    /\ clear' = IF clear.i = Len(clear.processing_batches)
                THEN [clear EXCEPT !.pc = "done"]
                ELSE [clear EXCEPT !.i = clear.i + 1]
    /\ UNCHANGED <<carousel_images, edit_tests, requests, submitting, mutations>>
    /\ UNCHANGED detail_vars
    /\ UNCHANGED other_vars
    /\ UNCHANGED api_responses

\* The script is run again.
ClearAgain ==
    /\ clear.pc = "done"
    /\ clear' = [pc |-> "idle", processing_batches |-> <<>>, i |-> 0]
    /\ UNCHANGED <<carousel_images, comfyui_batches, edit_tests, requests,
                   submitting, mutations>>
    /\ UNCHANGED detail_vars
    /\ UNCHANGED other_vars
    /\ UNCHANGED api_responses

\* import_instagram_data.py line 93: a row is appended to the carousel.
CarouselInsert ==
    /\ "insert" \notin mutations
    /\ carousel_images' = Append(carousel_images, Image(Len(carousel_images) + 1))
    /\ mutations' = mutations \cup {"insert"}
    /\ UNCHANGED <<comfyui_batches, edit_tests, requests, submitting, clear>>
    /\ UNCHANGED detail_vars
    /\ UNCHANGED other_vars
    /\ UNCHANGED api_responses

\* A row that no edit refers to is deleted.
CarouselDelete ==
    /\ "delete" \notin mutations
    /\ \E k \in 1..Len(carousel_images) :
        /\ \A t \in DOMAIN edit_tests :
               edit_tests[t].image_id # carousel_images[k].id
        /\ carousel_images' =
               [j \in 1..(Len(carousel_images) - 1) |->
                   IF j < k THEN carousel_images[j] ELSE carousel_images[j + 1]]
    /\ mutations' = mutations \cup {"delete"}
    /\ UNCHANGED <<comfyui_batches, edit_tests, requests, submitting, clear>>
    /\ UNCHANGED detail_vars
    /\ UNCHANGED other_vars
    /\ UNCHANGED api_responses

\* Two neighbouring rows exchange their image_order.
CarouselReorder ==
    /\ "reorder" \notin mutations
    /\ \E k \in 1..(Len(carousel_images) - 1) :
          carousel_images' =
              [carousel_images EXCEPT
                  ![k] = [carousel_images[k + 1] EXCEPT
                              !.image_order = carousel_images[k].image_order],
                  ![k + 1] = [carousel_images[k] EXCEPT
                              !.image_order = carousel_images[k + 1].image_order]]
    /\ mutations' = mutations \cup {"reorder"}
    /\ UNCHANGED <<comfyui_batches, edit_tests, requests, submitting, clear>>
    /\ UNCHANGED detail_vars
    /\ UNCHANGED other_vars
    /\ UNCHANGED api_responses

\* download_and_upload_images.py lines 97-99: a row without local_path
\* gets one.
CarouselSetLocalPath ==
    /\ "local_path" \notin mutations
    /\ \E k \in 1..Len(carousel_images) :
        /\ carousel_images[k].local_path = None
        /\ carousel_images' =
               [carousel_images EXCEPT
                   ![k].local_path = <<"local", carousel_images[k].id>>]
    /\ mutations' = mutations \cup {"local_path"}
    /\ UNCHANGED <<comfyui_batches, edit_tests, requests, submitting, clear>>
    /\ UNCHANGED detail_vars
    /\ UNCHANGED other_vars
    /\ UNCHANGED api_responses

NextSys ==
    \/ SubmitEditInsert
    \/ SubmitEditFinish
    \/ RejectEdit
    \/ \E r \in Requests : ApproveUpdate(r)
    \/ \E r \in Requests : ApproveRead(r)
    \/ \E r \in Requests : ApproveUploads(r)
    \/ \E r \in Requests : ApproveSubmits(r)
    \/ \E r \in Requests : ApprovePolls(r)
    \/ ClearRead
    \/ ClearWrite
    \/ ClearAgain

SpecSys == InitSys /\ [][NextSys]_vars

\* One approve_edit request of an edit of the second image, while other
\* clients change carousel_images.
InitSnap ==
    /\ carousel_images = [i \in 1..(MaxImages - 1) |-> Image(i)]
    /\ comfyui_batches = <<>>
    /\ edit_tests = <<[image_id |-> 2, status |-> "completed",
                       nanabana_result_url |-> <<"out", 1>>,
                       notes |-> Null, approved_at |-> None,
                       completed_at |-> TRUE]>>
    /\ requests = [r \in Requests |-> IdleRequest]
    /\ submitting = {}
    /\ clear = [pc |-> "idle", processing_batches |-> <<>>, i |-> 0]
    /\ mutations = {}
    /\ api_responses = {}
    /\ OtherIdle
    /\ DetailIdle

NextSnap ==
    \/ ApproveUpdate(1)
    \/ ApproveRead(1)
    \/ ApproveUploads(1)
    \/ ApproveSubmits(1)
    \/ ApprovePolls(1)
    \/ CarouselInsert
    \/ CarouselDelete
    \/ CarouselReorder
    \/ CarouselSetLocalPath

SpecSnap == InitSnap /\ [][NextSnap]_vars

\* Every row of both tables has a status of its schema.
SysTypeOK ==
    /\ \A b \in DOMAIN comfyui_batches :
           comfyui_batches[b].status \in {"queued", "processing", "completed", "failed"}
    /\ \A t \in DOMAIN edit_tests :
           edit_tests[t].status \in
               {"pending", "processing", "completed", "approved", "rejected"}

\* ------------------------------------------------------------------ C13
\* The moves the status of a batch may make: none, queued -> processing,
\* processing -> completed, processing -> failed.
StatusStep(a, b) ==
    \/ a = b
    \/ <<a, b>> \in {<<"queued", "processing">>,
                     <<"processing", "completed">>,
                     <<"processing", "failed">>}

\* C13: under any interleaving of approve_edit runs and runs of
\* clear_processing_batches, the status of every batch only moves along
\* queued -> processing -> {completed, failed}, and a batch that is
\* 'completed' or 'failed' keeps that status in every later write.
C13_StatusMonotone ==
    [][\A b \in DOMAIN comfyui_batches :
          StatusStep(comfyui_batches[b].status, comfyui_batches'[b].status)]_vars

\* ------------------------------------------------------------------ C14
\* An edit row without its notes.
WithoutNotes(row) == [row EXCEPT !.notes = Null]

\* C14: once the status of an edit is 'approved', no call of submit_edit,
\* approve_edit or reject_edit changes its status, its approval timestamp
\* or any attribute other than notes.
C14_ApprovedImmutable ==
    [][\A t \in DOMAIN edit_tests :
          edit_tests[t].status = "approved" =>
              WithoutNotes(edit_tests'[t]) = WithoutNotes(edit_tests[t])]_vars

\* ------------------------------------------------------------------ C15
\* Requests that own a batch own different ones, and the batch belongs to
\* the edit the request approved.
OwnBatches ==
    \A r \in Requests :
        /\ requests[r].pc \in {"setup", "submit", "poll"} => requests[r].batch_id # 0
        /\ requests[r].batch_id # 0 =>
             /\ requests[r].batch_id \in DOMAIN comfyui_batches
             /\ comfyui_batches[requests[r].batch_id].edit_test_id = requests[r].test_id
             /\ \A q \in Requests \ {r} : requests[q].batch_id # requests[r].batch_id

\* A step of request r: every such step moves its position.
StepOf(r) == requests'[r] # requests[r]

\* C15: every approve_edit call on an edit whose carousel has siblings
\* inserts a new batch with its own id, also when the edit is already
\* approved and has batches, and a run changes no batch row but its own,
\* in sequential and in interleaved runs.
C15_IndependentBatches ==
    /\ []OwnBatches
    /\ [][\A r \in Requests :
            StepOf(r) =>
              /\ requests[r].pc = "read" =>
                   /\ Len(comfyui_batches') = Len(comfyui_batches) + 1
                   /\ requests'[r].batch_id = Len(comfyui_batches')
              /\ \A b \in DOMAIN comfyui_batches :
                    b # requests'[r].batch_id =>
                        comfyui_batches'[b] = comfyui_batches[b]]_vars

\* Two approvals of the same edit have both returned; the earlier batch
\* failed and the later one completed.
C15_Witness ==
    /\ requests[1].pc = "done"
    /\ requests[2].pc = "done"
    /\ requests[1].test_id = requests[2].test_id
    /\ requests[1].batch_id # 0
    /\ requests[2].batch_id # 0
    /\ requests[1].batch_id # requests[2].batch_id
    /\ comfyui_batches[requests[1].batch_id].status = "failed"
    /\ comfyui_batches[requests[2].batch_id].status = "completed"
    /\ comfyui_batches[requests[2].batch_id].completed_images # None

\* ------------------------------------------------------------------ C20
\* The three lists of request r agree: the stored images_to_process, the
\* assets uploaded as pose1..poseN and the items iterated for submission.
ListsAgree(r) ==
    LET items == comfyui_batches[requests[r].batch_id].images_to_process
    IN  /\ items = ImagesToProcess(requests[r].other_images)
        /\ requests[r].pc \in {"submit", "poll"} =>
               requests[r].uploaded = [k \in 1..Len(items) |-> items[k].url]
        /\ requests[r].pc = "poll" =>
               requests[r].submitted = [k \in 1..Len(items) |-> items[k].id]

InFlight(r) == requests[r].pc \in {"setup", "submit", "poll"}

\* C20: the item list is read once at the start of approve_edit: the list
\* stored in images_to_process, the list uploaded as pose1..poseN and the
\* list iterated for submission are the same list in the same order, and
\* a change of carousel_images (insert, delete, reorder) while the batch
\* is in flight changes none of them.
C20_SnapshotOnce ==
    /\ [](\A r \in Requests : InFlight(r) => ListsAgree(r))
    /\ [][carousel_images' # carousel_images =>
            /\ requests' = requests
            /\ \A b \in DOMAIN comfyui_batches :
                  comfyui_batches'[b].images_to_process =
                      comfyui_batches[b].images_to_process]_vars

\* The request has uploaded and submitted its items after all four kinds
\* of change were made to the carousel behind its back.
C20_Witness ==
    /\ requests[1].pc = "poll"
    /\ mutations = MutationKinds
    /\ SiblingsOf(carousel_images, requests[1].image_id) # requests[1].other_images
    /\ Len(requests[1].uploaded) = MaxImages - 2
    /\ Len(requests[1].submitted) = MaxImages - 2

\* ------------------------------------------------------------------ C21
\* A step of the request that writes a terminal status to its batch.
TerminalWrite ==
    /\ batch_id # 0
    /\ comfyui_batches' # comfyui_batches
    /\ comfyui_batches'[batch_id].status \in {"completed", "failed"}

\* C21: every terminal write of approve_edit sets the completion
\* timestamp; a write of status 'failed' also sets an error message; the
\* write of status 'completed' stores the completed_images list and sets
\* no error message.
C21_TerminalWriteFields ==
    [][TerminalWrite =>
         LET old == comfyui_batches[batch_id]
             new == comfyui_batches'[batch_id]
         IN  /\ new.completed_at = TRUE
             /\ new.status = "failed" =>
                   /\ new.error_message # Null
                   /\ new.completed_images = old.completed_images
             /\ new.status = "completed" =>
                   /\ new.completed_images = completed_images
                   /\ new.completed_images # <<>>
                   /\ new.error_message = old.error_message
                   /\ new.error_message = Null]_vars

\* Both kinds of 'failed' write and the 'completed' write have the fields:
\* here the request ended with every polled item lost.
C21_Witness ==
    /\ pc = "done"
    /\ batch_id # 0
    /\ failed_step = "none"
    /\ comfyui_batches[batch_id].status = "failed"
    /\ comfyui_batches[batch_id].error_message = "All workflows timed out or failed"
    /\ comfyui_batches[batch_id].completed_at = TRUE
    /\ Len(poll_results) = 2

\* ------------------------------------------------------------------ C22
\* C22: every batch whose status is 'completed' has a non-empty
\* completed_images list, in every state that runs of approve_edit and of
\* clear_processing_batches can reach.
C22_CompletedHasImages ==
    \A b \in DOMAIN comfyui_batches :
        comfyui_batches[b].status = "completed" =>
            /\ comfyui_batches[b].completed_images # None
            /\ Len(comfyui_batches[b].completed_images) > 0

\* =====================================================================
\* api_pose_transfer (app.py:505-689): the single-job endpoint.
\* =====================================================================

\* Ceiling of the poll loop of api_pose_transfer (line 607).
max_attempts_pose == 40

\* Filenames a history response may report for the job's image: the one
\* SaveImage derives from the prefix of node 94, and any other one.
ReportedFilenames(job) ==
    {<<"pose_transfer_", job, "_00001_.png">>, <<"ComfyUI_temp_", job, ".png">>}

\* The request before it arrives.
PoseIdle ==
    [pc |-> "ready", job_id |-> None, prompt_id |-> None, attempt |-> 0,
     queries |-> 0, last_poll |-> "none", output_filename |-> None,
     downloaded |-> None, stored |-> None, response |-> None]

\* Line 647: the remote path handed to scp.
PoseOutputPathBuilt(job, filename) ==
    <<"/workspace/ComfyUI/output/">> \o <<"pose_transfer_", job, "_00001_.png">>
PoseOutputPath(job, filename) == <<"/workspace/ComfyUI/output/">> \o filename

\* Line 661: the storage path of the result.
PoseStoragePath(job, filename) == <<"pose_transfers", job, "_">> \o filename

\* Lines 611-632: the while loop of api_pose_transfer is left by break on
\* the completed flag, or by its test.
PoseLeavesLoop(outcome, n) ==
    outcome \in {"completed", "completed_no_images"} \/ ~(n < max_attempts_pose)

\* Lines 684-689: the except handler of api_pose_transfer.
PoseError(e) == [success |-> FALSE, error |-> e, code |-> 500]

\* Lines 512-518: read the body; both URLs are required.
PoseStart ==
    /\ pose_transfer.pc = "ready"
    /\ \E has_urls \in BOOLEAN :
          pose_transfer' =
              IF has_urls
              THEN [pose_transfer EXCEPT !.pc = "download"]
              ELSE [pose_transfer EXCEPT
                      !.pc = "done",
                      !.response = [success |-> FALSE,
                                    error |-> "Both image URLs are required",
                                    code |-> 400]]
    /\ UNCHANGED <<carousel_images, comfyui_batches, instagram_carousels,
                   imported_images, import_job>>
    /\ UNCHANGED detail_vars
    /\ UNCHANGED sys_vars

\* Lines 520-564: download both images, name the job, copy both files to
\* the Render Host.
PoseUpload ==
    /\ pose_transfer.pc = "download"
    /\ \E ok \in BOOLEAN :
          pose_transfer' =
              IF ok
              THEN [pose_transfer EXCEPT !.pc = "trigger", !.job_id = "job1"]
              ELSE [pose_transfer EXCEPT !.pc = "done",
                                         !.response = PoseError("upload failed")]
    /\ UNCHANGED <<carousel_images, comfyui_batches, instagram_carousels,
                   imported_images, import_job>>
    /\ UNCHANGED detail_vars
    /\ UNCHANGED sys_vars

\* Lines 566-609: post the job graph through ssh; the answer may lack a
\* prompt_id (api_response.get gives None).
PoseTrigger ==
    /\ pose_transfer.pc = "trigger"
    /\ \E outcome \in {"accepted", "no_prompt_id", "error"} :
          pose_transfer' =
              IF outcome = "error"
              THEN [pose_transfer EXCEPT !.pc = "done",
                                         !.response = PoseError("trigger failed")]
              ELSE [pose_transfer EXCEPT
                      !.pc = "polling",
                      !.prompt_id = IF outcome = "accepted"
                                    THEN JobId(1) ELSE None,
                      !.attempt = 0,
                      !.output_filename = None]
    /\ UNCHANGED <<carousel_images, comfyui_batches, instagram_carousels,
                   imported_images, import_job>>
    /\ UNCHANGED detail_vars
    /\ UNCHANGED sys_vars

\* Lines 611-634: one pass of the while loop.  The loop has no try of its
\* own: an exception of the query or of json.loads reaches the handler at
\* line 684.  A response for prompt_id None never shows the job.
PosePollAttemptToleratesError ==
    /\ pose_transfer.pc = "polling"
    /\ pose_transfer.attempt < max_attempts_pose
    /\ \E outcome \in {"error", "pending", "completed_no_images", "completed"} :
       \E name \in ReportedFilenames(pose_transfer.job_id) :
          /\ outcome \in {"completed_no_images", "completed"} =>
                 pose_transfer.prompt_id # None
          /\ outcome # "completed" =>
                 name = <<"pose_transfer_", pose_transfer.job_id, "_00001_.png">>
          /\ pose_transfer' =
               IF outcome = "error"
               THEN [pose_transfer EXCEPT
                       !.pc = IF PoseLeavesLoop(outcome, pose_transfer.attempt + 1)
                              THEN "polled" ELSE "polling",
                       !.attempt = pose_transfer.attempt + 1,
                       !.queries = pose_transfer.queries + 1,
                       !.last_poll = outcome]
               ELSE [pose_transfer EXCEPT
                       !.pc = IF PoseLeavesLoop(outcome, pose_transfer.attempt + 1)
                              THEN "polled" ELSE "polling",
                       !.attempt = pose_transfer.attempt + 1,
                       !.queries = pose_transfer.queries + 1,
                       !.last_poll = outcome,
                       !.output_filename = IF outcome = "completed"
                                           THEN name ELSE None]
    /\ UNCHANGED <<carousel_images, comfyui_batches, instagram_carousels,
                   imported_images, import_job>>
    /\ UNCHANGED detail_vars
    /\ UNCHANGED sys_vars
PosePollAttempt ==
    /\ pose_transfer.pc = "polling"
    /\ pose_transfer.attempt < max_attempts_pose
    /\ \E outcome \in {"error", "pending", "completed_no_images", "completed"} :
       \E name \in ReportedFilenames(pose_transfer.job_id) :
          /\ outcome \in {"completed_no_images", "completed"} =>
                 pose_transfer.prompt_id # None
          /\ outcome # "completed" =>
                 name = <<"pose_transfer_", pose_transfer.job_id, "_00001_.png">>
          /\ pose_transfer' =
               IF outcome = "error"
               THEN [pose_transfer EXCEPT
                       !.pc = "done",
                       !.attempt = pose_transfer.attempt + 1,
                       !.queries = pose_transfer.queries + 1,
                       !.last_poll = outcome,
                       !.response = PoseError("poll failed")]
               ELSE [pose_transfer EXCEPT
                       !.pc = IF PoseLeavesLoop(outcome, pose_transfer.attempt + 1)
                              THEN "polled" ELSE "polling",
                       !.attempt = pose_transfer.attempt + 1,
                       !.queries = pose_transfer.queries + 1,
                       !.last_poll = outcome,
                       !.output_filename = IF outcome = "completed"
                                           THEN name ELSE None]
    /\ UNCHANGED <<carousel_images, comfyui_batches, instagram_carousels,
                   imported_images, import_job>>
    /\ UNCHANGED detail_vars
    /\ UNCHANGED sys_vars

\* Lines 636-682: without a filename answer with an error; else copy the
\* reported file from the Render Host, store it and answer.
PoseRetrieve ==
    /\ pose_transfer.pc = "polled"
    /\ IF pose_transfer.output_filename = None
       THEN pose_transfer' =
              [pose_transfer EXCEPT
                 !.pc = "done",
                 !.response = [success |-> FALSE,
                               error |-> "Generation timed out or failed. Check RunPod ComfyUI manually.",
                               code |-> 500]]
       ELSE \E outcome \in {"stored", "download_failed", "upload_failed"} :
              pose_transfer' =
                [pose_transfer EXCEPT
                   !.pc = "done",
                   !.downloaded = PoseOutputPath(pose_transfer.job_id,
                                                 pose_transfer.output_filename),
                   !.stored = IF outcome = "stored"
                              THEN PoseStoragePath(pose_transfer.job_id,
                                                   pose_transfer.output_filename)
                              ELSE None,
                   !.response = IF outcome = "stored"
                                THEN [success |-> TRUE, error |-> Null, code |-> 200]
                                ELSE PoseError(outcome)]
    /\ UNCHANGED <<carousel_images, comfyui_batches, instagram_carousels,
                   imported_images, import_job>>
    /\ UNCHANGED detail_vars
    /\ UNCHANGED sys_vars

\* The next request arrives.
PoseAgain ==
    /\ pose_transfer.pc = "done"
    /\ pose_transfer' = PoseIdle
    /\ UNCHANGED <<carousel_images, comfyui_batches, instagram_carousels,
                   imported_images, import_job>>
    /\ UNCHANGED detail_vars
    /\ UNCHANGED sys_vars

InitPose ==
    /\ carousel_images = <<>>
    /\ comfyui_batches = <<>>
    /\ edit_tests = <<>>
    /\ requests = <<>>
    /\ submitting = {}
    /\ clear = [pc |-> "idle", processing_batches |-> <<>>, i |-> 0]
    /\ mutations = {}
    /\ api_responses = {}
    /\ DetailIdle
    /\ pose_transfer = PoseIdle
    /\ instagram_carousels = <<>>
    /\ imported_images = <<>>
    /\ import_job = [pc |-> "off"]

NextPose ==
    \/ PoseStart
    \/ PoseUpload
    \/ PoseTrigger
    \/ PosePollAttempt
    \/ PoseRetrieve
    \/ PoseAgain

SpecPose == InitPose /\ [][NextPose]_vars

\* Both retrieval paths in one run: an approve_edit request, and pose
\* transfer requests made after it has returned (the two handlers share no
\* table, file or storage path).
InitPaths ==
    /\ carousel_images = [i \in 1..(MaxImages - 1) |-> Image(i)]
    /\ comfyui_batches = <<>>
    /\ edit_tests = <<>>
    /\ requests = <<>>
    /\ submitting = {}
    /\ clear = [pc |-> "idle", processing_batches |-> <<>>, i |-> 0]
    /\ mutations = {}
    /\ api_responses = {}
    /\ DetailIdle
    /\ pose_transfer = PoseIdle
    /\ instagram_carousels = <<>>
    /\ imported_images = <<>>
    /\ import_job = [pc |-> "off"]

NextPaths ==
    \/ Next
    \/ pc = "done" /\ NextPose

SpecPaths == InitPaths /\ [][NextPaths]_vars
PoseTypeOK == pose_transfer.attempt \in 0..max_attempts_pose

\* ------------------------------------------------------------------ C23
\* C23: approve_edit downloads {batch_id}_pose{idx+1}_00001_.png, built
\* from the batch id and the index of the poll loop, whatever filename the
\* history response reported (a reported filename only decides whether the
\* item is retrieved at all); api_pose_transfer downloads exactly the
\* filename the history response reported.
C23_RetrievedNames ==
    /\ \A k \in 1..Len(poll_results) :
          /\ (poll_results[k].result # "skipped") <=>
                 (poll_results[k].seen = "completed")
          /\ poll_results[k].result # "skipped" =>
                 poll_results[k].filename = ActualFilename(batch_id, k - 1)
    /\ pose_transfer.downloaded # None =>
          /\ pose_transfer.output_filename \in
                 ReportedFilenames(pose_transfer.job_id)
          /\ pose_transfer.downloaded =
                 <<"/workspace/ComfyUI/output/">> \o pose_transfer.output_filename

\* The batch request stored the output of its second job under the built
\* name, and the pose transfer request fetched a reported file whose name
\* does not follow the prefix of node 94.
C23_Witness ==
    /\ pc = "done"
    /\ Len(poll_results) = 2
    /\ poll_results[2].result = "stored"
    /\ poll_results[2].filename = ActualFilename(batch_id, 1)
    /\ pose_transfer.pc = "done"
    /\ pose_transfer.stored # None
    /\ pose_transfer.output_filename = <<"ComfyUI_temp_", "job1", ".png">>

\* ------------------------------------------------------------------ C24
\* C24: when the batch has a terminal status, every job identifier that a
\* submission returned has been polled at least once.
C24_EveryJobPolled ==
    (batch_id # 0 /\ comfyui_batches[batch_id].status \in {"completed", "failed"}) =>
        \A k \in 1..Len(prompt_ids) :
            \E j \in 1..Len(poll_results) : poll_results[j].job = prompt_ids[k]

\* ------------------------------------------------------------------ C25
\* C25: every edit whose status is 'approved' has a result reference, and
\* every batch belongs to an edit that has one: approve_edit neither
\* approves nor starts a batch for an edit still 'processing' or
\* 'rejected' without a result.
C25_ApprovedHasResult ==
    /\ \A t \in DOMAIN edit_tests :
          edit_tests[t].status = "approved" =>
              edit_tests[t].nanabana_result_url # None
    /\ \A r \in Requests :
          requests[r].pc = "setup" =>
              edit_tests[requests[r].test_id].nanabana_result_url # None

\* ------------------------------------------------------------------ C26
\* Polled items whose download or storage upload failed.
FailedRetrievals == {i \in 1..Len(poll_results) : poll_results[i].result = "failed"}

\* C26: a failure while downloading or storing the output of a completed
\* item adds nothing to completed_images for that item and does not end
\* the request: the remaining job identifiers are still polled, and the
\* batch ends 'completed' when any other item was stored.
C26_RetrievalFailureIsolated ==
    FailedRetrievals # {} =>
        /\ failed_step = "none"
        /\ \A k \in FailedRetrievals :
              /\ poll_results[k].seen = "completed"
              /\ PublicUrl(poll_results[k].path) \notin Range(completed_images)
              /\ poll_results[k].path \notin storage
        /\ Len(completed_images) = Cardinality(StoredItems)
        /\ pc \in {"polling", "polled", "finalize", "done"}
        /\ pc \in {"finalize", "done"} => Len(poll_results) = Len(prompt_ids)
        /\ pc = "done" =>
              IF StoredItems # {}
              THEN /\ comfyui_batches[batch_id].status = "completed"
                   /\ comfyui_batches[batch_id].completed_images = completed_images
              ELSE comfyui_batches[batch_id].status = "failed"

\* The first output could not be retrieved, the second one was stored and
\* the batch is 'completed' with that one image.
C26_Witness ==
    /\ pc = "done"
    /\ Len(poll_results) = 2
    /\ poll_results[1].result = "failed"
    /\ poll_results[2].result = "stored"
    /\ comfyui_batches[batch_id].status = "completed"
    /\ Len(comfyui_batches[batch_id].completed_images) = 1

\* ------------------------------------------------------------------ C27
\* Every remote call of approve_edit is blocking with a timeout and the
\* process is not killed: a request that can take a step takes one.
InitLive ==
    /\ carousel_images = [i \in 1..(MaxImages - 1) |-> Image(i)]
    /\ comfyui_batches = <<>>
    /\ edit_tests = <<>>
    /\ requests = <<>>
    /\ submitting = {}
    /\ clear = [pc |-> "idle", processing_batches |-> <<>>, i |-> 0]
    /\ mutations = {}
    /\ api_responses = {}
    /\ DetailIdle
    /\ OtherIdle

SpecLive == InitLive /\ [][Next]_vars /\ WF_vars(Next)

\* The request has written a terminal status to its batch and answered.
Ended ==
    /\ pc = "done"
    /\ batch_id # 0
    /\ comfyui_batches[batch_id].status \in {"completed", "failed"}
    /\ comfyui_batches[batch_id].completed_at = TRUE
    /\ response # None

\* C27: every approve_edit run that inserts a batch eventually writes a
\* terminal status to it and returns a response, whatever remote calls
\* fail, time out or never complete; a run that has returned has not left
\* its batch in 'processing'.
C27_EventuallyTerminal ==
    /\ [](batch_id # 0 => <>Ended)
    /\ []((pc = "done" /\ batch_id # 0) =>
             comfyui_batches[batch_id].status # "processing")

\* Every job was accepted and none ever completed: each one used up its
\* attempts, and the request still ended, with a 'failed' batch.
C27_Witness ==
    /\ pc = "done"
    /\ batch_id # 0
    /\ Len(other_images) >= 2
    /\ Len(poll_results) = Len(other_images)
    /\ \A i \in 1..Len(poll_results) : poll_results[i].seen = "timed_out"
    /\ comfyui_batches[batch_id].status = "failed"
    /\ response # None

\* =====================================================================
\* submit_edit (app.py:86-174) with the answers of the Edit API, next to
\* reject_edit and the other writers of carousel_images.
\* =====================================================================

\* What the call of the Edit API may give: a transport failure, an HTTP
\* error status, or a JSON body with a code and a list of outputs.
EditApiResponses ==
    {[transport |-> tr, code |-> c, outputs |-> o] :
        tr \in {"ok", "timeout", "http_error"},
        c \in {200, 500},
        o \in {<<>>, <<<<"out", 1>>>>, <<<<"out", 1>>, <<"out", 2>>>>}}

\* Lines 133-144: the checks between the call and the use of its result.
ProducesIgnoringCode(resp) == resp.transport = "ok" /\ resp.outputs # <<>>
Produces(resp) ==
    /\ resp.transport = "ok"
    /\ resp.code = 200
    /\ resp.outputs # <<>>

\* str(e) of the exception raised at lines 133-144.
ErrorText(resp) ==
    IF resp.transport # "ok" THEN resp.transport
    ELSE IF resp.code # 200 THEN "API returned error"
    ELSE "No image outputs in response"

\* submit_edit, lines 113-174, with the answer of the Edit API spelled
\* out: the row is updated to 'completed' with the first output, or to
\* 'rejected' with the error as notes.
SubmitEditAnswer ==
    \E t \in submitting : \E resp \in EditApiResponses :
        /\ resp.transport # "ok" => (resp.code = 500 /\ resp.outputs = <<>>)
        /\ edit_tests' =
             IF Produces(resp)
             THEN [edit_tests EXCEPT ![t].nanabana_result_url = resp.outputs[1],
                                     ![t].status = "completed",
                                     ![t].completed_at = TRUE]
             ELSE [edit_tests EXCEPT ![t].status = "rejected",
                                     ![t].notes = ErrorText(resp)]
        /\ api_responses' = api_responses \cup {<<t, resp>>}
        /\ submitting' = submitting \ {t}
        /\ UNCHANGED <<carousel_images, comfyui_batches, requests, clear, mutations>>
        /\ UNCHANGED detail_vars
        /\ UNCHANGED other_vars


InitEdit ==
    /\ carousel_images = [i \in 1..(MaxImages - 1) |-> Image(i)]
    /\ comfyui_batches = <<>>
    /\ edit_tests = <<>>
    /\ requests = [r \in Requests |-> IdleRequest]
    /\ submitting = {}
    /\ clear = [pc |-> "idle", processing_batches |-> <<>>, i |-> 0]
    /\ mutations = {}
    /\ api_responses = {}
    /\ DetailIdle
    /\ OtherIdle

NextEdit ==
    \/ SubmitEditInsert
    \/ SubmitEditAnswer
    \/ RejectEdit
    \/ CarouselInsert
    \/ CarouselDelete
    \/ CarouselReorder
    \/ CarouselSetLocalPath

SpecEdit == InitEdit /\ [][NextEdit]_vars

\* ------------------------------------------------------------------ C28
\* The answer the Edit API gave for edit t.
AnswerOf(t) == CHOOSE resp \in EditApiResponses : <<t, resp>> \in api_responses'

\* C28: submit_edit inserts the edit with status 'processing'; when it
\* returns it has written exactly one of: 'completed' with the first
\* output of the Edit API answer as result, or 'rejected' with the error
\* text as notes and no result; an answer with an error code or without
\* outputs never gives 'completed'.
C28_SubmitOutcome ==
    [][/\ \A t \in submitting' \ submitting :
             /\ edit_tests'[t].status = "processing"
             /\ edit_tests'[t].nanabana_result_url = None
       /\ \A t \in submitting \ submitting' :
             LET row == edit_tests'[t]
                 resp == AnswerOf(t)
                 good == /\ resp.transport = "ok"
                         /\ resp.code = 200
                         /\ Len(resp.outputs) >= 1
             IN  /\ edit_tests[t].status \in {"processing", "rejected"}
                 /\ row.status \in {"completed", "rejected"}
                 /\ (row.status = "completed") <=> good
                 /\ row.status = "completed" =>
                       /\ row.nanabana_result_url = resp.outputs[1]
                       /\ row.nanabana_result_url # None
                 /\ row.status = "rejected" =>
                       /\ row.notes # Null
                       /\ row.notes \in {"timeout", "http_error",
                                         "API returned error",
                                         "No image outputs in response"}
                       /\ row.nanabana_result_url = None]_vars

\* The Edit API answered code 200 with an empty output list: the edit is
\* 'rejected' with that error as notes and has no result.
C28_Witness ==
    /\ 1 \in DOMAIN edit_tests
    /\ 1 \notin submitting
    /\ <<1, [transport |-> "ok", code |-> 200, outputs |-> <<>>]>> \in api_responses
    /\ edit_tests[1].status = "rejected"
    /\ edit_tests[1].notes = "No image outputs in response"
    /\ edit_tests[1].nanabana_result_url = None

\* ------------------------------------------------------------------ C29
\* C29: the poller of api_pose_transfer makes at most 40 status queries;
\* when no query shows the completed flag with an image output the request
\* answers with an error and stores nothing; and an error raised by one
\* poll attempt ends the request at once with an error response.
C29_SinglePoller ==
    /\ [](/\ pose_transfer.queries <= max_attempts_pose
          /\ pose_transfer.queries = pose_transfer.attempt
          /\ (pose_transfer.pc = "done" /\ pose_transfer.output_filename = None) =>
                /\ pose_transfer.response.success = FALSE
                /\ pose_transfer.stored = None
                /\ pose_transfer.downloaded = None
          /\ pose_transfer.stored # None =>
                pose_transfer.last_poll = "completed")
    /\ [][(pose_transfer'.queries = pose_transfer.queries + 1
             /\ pose_transfer'.last_poll = "error") =>
            /\ pose_transfer'.pc = "done"
            /\ pose_transfer'.response = PoseError("poll failed")
            /\ pose_transfer'.stored = None]_vars

\* The second status query raised: the request has ended with an error
\* after two queries and stored nothing.
C29_Witness ==
    /\ pose_transfer.pc = "done"
    /\ pose_transfer.last_poll = "error"
    /\ pose_transfer.queries = 2
    /\ pose_transfer.response.code = 500
    /\ pose_transfer.stored = None

\* =====================================================================
\* import_instagram_data (import_instagram_data.py:17-108), run several
\* times in a row over the same file.
\* =====================================================================

\* Number of runs of the script that are followed.
MaxRuns == 2

\* The posts of the JSON file: a carousel with a video among its children,
\* a single-image post, the first carousel once more with another caption,
\* and a second carousel.
ImportData ==
    <<[id |-> "A", type |-> "Sidecar", caption |-> "a1",
       childPosts |-> <<"Image", "Video", "Image">>],
      [id |-> "B", type |-> "Image", caption |-> "b", childPosts |-> <<>>],
      [id |-> "A", type |-> "Sidecar", caption |-> "a2",
       childPosts |-> <<"Image">>],
      [id |-> "C", type |-> "Sidecar", caption |-> "c",
       childPosts |-> <<"Image", "Image">>]>>

\* Line 30: carousels = [p for p in data if p.get('type') == 'Sidecar'].
Carousels(data) == SelectSeq(data, LAMBDA p : p.type = "Sidecar")

\* Lines 45-47: the select by post_id returned a row.
AlreadyImportedNever(rows, post_id) == FALSE
AlreadyImported(rows, post_id) ==
    \E k \in 1..Len(rows) : rows[k].post_id = post_id

\* Line 62: the number of children of type Image.
ImageCount(post) ==
    Cardinality({k \in 1..Len(post.childPosts) : post.childPosts[k] = "Image"})

\* The loop goes on with the next carousel, or ends (lines 37, 99-101).
NextCarousel(job, failed) ==
    [job EXCEPT !.pc = IF job.i < Len(Carousels(ImportData))
                       THEN "check" ELSE "finished",
                !.i = job.i + 1,
                !.order = 0,
                !.carousel_db_id = 0,
                !.errors = IF failed THEN job.errors \cup {job.i} ELSE job.errors]

\* The script has been started (lines 17-35).
ImportStarted(run) ==
    [pc |-> IF Carousels(ImportData) = <<>> THEN "finished" ELSE "check",
     run |-> run, i |-> 1, order |-> 0, carousel_db_id |-> 0, errors |-> {}]

\* Lines 44-50: look the post up; skip it when a row exists.  An exception
\* of the query goes to the handler at line 99.
ImportCheck ==
    /\ import_job.pc = "check"
    /\ \E ok \in BOOLEAN :
          import_job' =
              IF ~ok THEN NextCarousel(import_job, TRUE)
              ELSE IF AlreadyImported(instagram_carousels,
                                      Carousels(ImportData)[import_job.i].id)
                   THEN NextCarousel(import_job, FALSE)
                   ELSE [import_job EXCEPT !.pc = "insert"]
    /\ UNCHANGED <<carousel_images, comfyui_batches, pose_transfer,
                   instagram_carousels, imported_images>>
    /\ UNCHANGED detail_vars
    /\ UNCHANGED sys_vars

\* Lines 52-77: insert the carousel row.  The insert fails when the store
\* is unreachable, and when post_id is taken (UNIQUE, setup_database.py:24).
ImportInsertCarousel ==
    /\ import_job.pc = "insert"
    /\ LET post == Carousels(ImportData)[import_job.i]
       IN  \E ok \in BOOLEAN :
             IF ok /\ \A k \in 1..Len(instagram_carousels) :
                         instagram_carousels[k].post_id # post.id
             THEN /\ instagram_carousels' = Append(instagram_carousels,
                         [post_id |-> post.id, caption |-> post.caption,
                          image_count |-> ImageCount(post)])
                  /\ import_job' = [import_job EXCEPT
                         !.pc = "images", !.order = 1,
                         !.carousel_db_id = Len(instagram_carousels) + 1]
             ELSE /\ import_job' = NextCarousel(import_job, TRUE)
                  /\ UNCHANGED instagram_carousels
    /\ UNCHANGED <<carousel_images, comfyui_batches, pose_transfer, imported_images>>
    /\ UNCHANGED detail_vars
    /\ UNCHANGED sys_vars

\* Lines 82-97: one pass of the loop over the children: an Image child is
\* inserted with its position among all children as image_order.
ImportInsertImage ==
    /\ import_job.pc = "images"
    /\ LET post == Carousels(ImportData)[import_job.i]
       IN  IF import_job.order > Len(post.childPosts)
           THEN /\ import_job' = NextCarousel(import_job, FALSE)
                /\ UNCHANGED imported_images
           ELSE IF post.childPosts[import_job.order] # "Image"
           THEN /\ import_job' = [import_job EXCEPT !.order = import_job.order + 1]
                /\ UNCHANGED imported_images
           ELSE \E ok \in BOOLEAN :
                  IF ok
                  THEN /\ imported_images' = Append(imported_images,
                              [carousel_id |-> import_job.carousel_db_id,
                               image_order |-> import_job.order])
                       /\ import_job' = [import_job EXCEPT
                                            !.order = import_job.order + 1]
                  ELSE /\ import_job' = NextCarousel(import_job, TRUE)
                       /\ UNCHANGED imported_images
    /\ UNCHANGED <<carousel_images, comfyui_batches, pose_transfer, instagram_carousels>>
    /\ UNCHANGED detail_vars
    /\ UNCHANGED sys_vars

\* Lines 112-122: the script is started again on the same file.
ImportRunAgain ==
    /\ import_job.pc = "finished"
    /\ import_job.run < MaxRuns
    /\ import_job' = ImportStarted(import_job.run + 1)
    /\ UNCHANGED <<carousel_images, comfyui_batches, pose_transfer,
                   instagram_carousels, imported_images>>
    /\ UNCHANGED detail_vars
    /\ UNCHANGED sys_vars

InitImport ==
    /\ carousel_images = <<>>
    /\ comfyui_batches = <<>>
    /\ edit_tests = <<>>
    /\ requests = <<>>
    /\ submitting = {}
    /\ clear = [pc |-> "idle", processing_batches |-> <<>>, i |-> 0]
    /\ mutations = {}
    /\ api_responses = {}
    /\ DetailIdle
    /\ pose_transfer = [pc |-> "off"]
    /\ instagram_carousels = <<>>
    /\ imported_images = <<>>
    /\ import_job = ImportStarted(1)

NextImport ==
    \/ ImportCheck
    \/ ImportInsertCarousel
    \/ ImportInsertImage
    \/ ImportRunAgain

SpecImport == InitImport /\ [][NextImport]_vars

\* ------------------------------------------------------------------ C30
\* The carousel at hand already has a row.
AtExistingPost ==
    /\ import_job.pc = "check"
    /\ \E k \in 1..Len(instagram_carousels) :
          instagram_carousels[k].post_id = Carousels(ImportData)[import_job.i].id

\* C30: after any number of runs over the same data no post_id has more
\* than one carousel row; a carousel whose post_id exists is skipped: no
\* field of any carousel row is updated and no image row is added for it;
\* and an error on one carousel does not stop the following carousels.
C30_ImportIdempotent ==
    /\ [](/\ \A j, k \in 1..Len(instagram_carousels) :
                instagram_carousels[j].post_id = instagram_carousels[k].post_id
                    => j = k
          /\ import_job.pc = "finished" =>
                /\ import_job.i = Len(Carousels(ImportData)) + 1
                /\ \A c \in 1..Len(Carousels(ImportData)) :
                      \/ c \in import_job.errors
                      \/ \E k \in 1..Len(instagram_carousels) :
                            instagram_carousels[k].post_id =
                                Carousels(ImportData)[c].id)
    /\ [][/\ \A k \in 1..Len(instagram_carousels) :
                instagram_carousels'[k] = instagram_carousels[k]
          /\ AtExistingPost =>
                /\ instagram_carousels' = instagram_carousels
                /\ imported_images' = imported_images
                /\ import_job'.pc \in {"check", "finished"}
                /\ import_job'.i = import_job.i + 1
          /\ \A k \in 1..Len(imported_images) :
                imported_images'[k] = imported_images[k]
          /\ Len(imported_images') > Len(imported_images) =>
                /\ import_job.pc = "images"
                /\ imported_images'[Len(imported_images')].carousel_id =
                       import_job.carousel_db_id]_vars

\* Two runs have ended.  Carousel A failed in the first run and was
\* imported by the second one with the fields of its first entry in the
\* file; carousel C was imported by the first run and skipped later.
C30_Witness ==
    /\ import_job.pc = "finished"
    /\ import_job.run = 2
    /\ import_job.errors = {}
    /\ Len(instagram_carousels) = 2
    /\ instagram_carousels[1].post_id = "C"
    /\ instagram_carousels[2].post_id = "A"
    /\ instagram_carousels[2].caption = "a1"
    /\ Len(imported_images) = 4

====
